---- MODULE Spec2Model ----
(***************************************************************************)
(* ClipSense worker: the background job registry                           *)
(* (worker/background_processor.py), the timeline writer / reader          *)
(* (worker/timeline.py), the conform stage (worker/conform.py), the        *)
(* assembler (worker/video_processor.py), the content selector             *)
(* (worker/ai_content_selector.py, worker/wedding_object_detector.py), the *)
(* beat detector (worker/simple_beat_detector.py) and the visual           *)
(* analyzer's choice of moments (worker/visual_analyzer.py).               *)
(*                                                                         *)
(* The specifications of the module:                                       *)
(*   Spec          the job registry and its executors                      *)
(*   SpecTimeline  write_timeline / read_timeline over a small file system *)
(*   SpecConform   conform_from_timeline over sources that change          *)
(*   SpecAssemble  runs of VideoProcessor.assemble_from_sources            *)
(*   SpecSelect    calls of AIContentSelector.select_best_clips            *)
(*   SpecAnalyze   calls of analyze_clip / analyze_clip_fast on a selector *)
(*   SpecMusic     SimpleBeatDetector.analyze_music on bounded inputs      *)
(*   SpecMoments   VisualAnalyzer._find_best_moments on bounded inputs     *)
(*   SpecRange     VisualAnalyzer.find_best_moments_in_duration            *)
(*   SpecFlight    the analysis tasks of a selection or of a job executor  *)
(*   SpecRuns      assemble_from_sources coroutines sharing one processor  *)
(*   SpecCache     the analysis cache of a selector                        *)
(*   SpecWav       analyze_music coroutines and their temporary WAV file   *)
(***************************************************************************)
EXTENDS Integers, Sequences, FiniteSets, Bags, TLC

VARIABLES
    jobs,        \* BackgroundProcessor.jobs: the job_ids that are keys of the dict
    jobObj,      \* the ProcessingJob objects, by job_id (an executor keeps its
                 \* reference after cleanup removed the key)
    executors,   \* the start_processing coroutines suspended at asyncio.gather: a
                 \* bag of their local variables
    started,     \* how many coroutines have reached the gather so far
    now,         \* time.time(), in seconds
    returned,    \* what the cleanup_old_jobs call that just ran returned to its
                 \* caller, with its argument: [max_age_hours, ret]; NoCall once
                 \* anything else has happened
    fs,          \* the file system: absolute path -> file (os.stat, content)
    clock,       \* the wall clock behind st_mtime and datetime.now()
    loaded,      \* the dict the last successful read_timeline returned
    lastCall,    \* the call that has just returned: its name, the path it was
                 \* given and the exception it raised
    writes,      \* how many timelines have been written so far
    conformed,   \* what the last conform_from_timeline call did: how many
                 \* times it ran the transcoder, the output it was to make
    assembled,   \* what the last run of assemble_from_sources left: its
                 \* arguments, its outcome, the segments it cut and
                 \* the segments it concatenated
    runs,        \* how many runs of assemble_from_sources have started
    selection,   \* the select_best_clips call in progress or just ended: its
                 \* arguments, the loop index, all_results, the outcome
    prev_gray,   \* WeddingObjectDetector.prev_gray of the selector's detector
    analysed,    \* the analyze_clip / analyze_clip_fast call that has just
                 \* ended: its arguments and what it returned or raised
    music,       \* the analyze_music call that has just ended: its inputs
                 \* and the dict it returned
    moments,     \* the _find_best_moments call that has just ended: its
                 \* arguments and the list it returned
    ranged,      \* the find_best_moments_in_duration call that has just
                 \* ended: its arguments, the frames it read and its answer
    flight,      \* a select_best_clips call or a job executor with the
                 \* analysis tasks its gathers created, each running or ended
    processor,   \* VideoProcessor.temp_dir and .proxy_dir of the shared instance
    assembling,  \* the assemble_from_sources coroutines on that instance: where
                 \* each stands, the directory it made, the files it wrote, what
                 \* it returned
    analysis_cache,\* AIContentSelector._analysis_cache: cache key -> the analysis
                 \* stored under it, named by the arguments of its call
    wavfile,     \* the file temp_beat_detect_<pid>.wav of the worker process:
                 \* whose audio has been written into it, which ffmpeg
                 \* processes are writing it
    analyses     \* the analyze_music coroutines of the process: their track,
                 \* where they stand, what librosa.load gave them

jobVars == <<jobs, jobObj, executors, started, now, returned>>
fileVars == <<fs, clock, loaded, lastCall, writes, conformed>>
asmVars == <<assembled, runs>>
moreVars == <<ranged, flight, processor, assembling, analysis_cache, wavfile, analyses>>
Rest_ranged == <<flight, processor, assembling, analysis_cache, wavfile, analyses>>
Rest_flight == <<ranged, processor, assembling, analysis_cache, wavfile, analyses>>
Rest_assembling == <<ranged, flight, analysis_cache, wavfile, analyses>>
Rest_cache == <<ranged, flight, processor, assembling, wavfile, analyses>>
Rest_wav == <<ranged, flight, processor, assembling, analysis_cache>>
oldAiVars == <<selection, prev_gray, analysed, music, moments>>
aiVars == <<oldAiVars, moreVars>>
vars == <<jobVars, fileVars, asmVars, aiVars>>

(***************************************************************************)
(* Small helpers                                                           *)
(***************************************************************************)
Min(a, b) == IF a <= b THEN a ELSE b
Max(a, b) == IF a >= b THEN a ELSE b

Range(s) == {s[k] : k \in 1..Len(s)}

\* s[:n] of Python for n >= 0
Take(s, n) == SubSeq(s, 1, Min(n, Len(s)))

(***************************************************************************)
(* Bounds of the model                                                     *)
(***************************************************************************)
MaxStarts == 2        \* start_processing calls that reach the gather
MaxWrites == 2        \* timelines written (write_timeline calls)

(***************************************************************************)
(* Program constants                                                       *)
(***************************************************************************)
batch_size == 3
SecondsPerHour == 3600
MinTargetCount == 5
SecondsPerClip == 3

\* Optional[...] fields: None
NoTime == -1          \* started_at / completed_at = None (timestamps are >= 0)
NoResults == << >>    \* results = None (the executor never stores an empty list)
NoError == "None"
NoneTarget == -1      \* target_duration = None, accepted by the untyped dataclass;
                      \* every integer target below 18 selects 5 clips, so the
                      \* sentinel hides no integer case

\* the keys create_job hands out, in the order of creation
JobIds == {1, 2}

Terminal == {"completed", "failed", "cancelled"}

(***************************************************************************)
(* The clips and what analyze_clip_fast does on each of them.              *)
(* A clip that cv2 cannot open makes the analysis raise ValueError; every  *)
(* other clip yields a result with a final score (in hundredths).          *)
(***************************************************************************)
Clips == 1..10

Unreadable == {8}

final_score(c) ==
    CASE c = 1 -> 50 [] c = 2 -> 70 [] c = 3 -> 70 [] c = 4 -> 90
      [] c = 5 -> 30 [] c = 6 -> 61 [] c = 7 -> 50 [] c = 9 -> 60
      [] c = 10 -> 80 [] OTHER -> 0

analyze_clip_fast(c) == [clip_path |-> c, final_score |-> final_score(c)]

\* the (clips, target_duration) pairs create_job is called with
JobConfigs ==
    { << << >>, 9 >>,
      << <<1, 2, 8, 3>>, 9 >>,
      << <<1, 2, 8, 3>>, NoneTarget >>,
      << <<4, 2, 6, 1, 5, 3>>, 9 >> }

MaxAgeHours == {0, 1, 2}

\* the instants, in seconds, at which the calls and the executor steps happen
Clock == {0, 2 * SecondsPerHour}

(***************************************************************************)
(* progress is the float processed_count / total_clips: an exact fraction  *)
(***************************************************************************)
Frac(n, d) == [num |-> n, den |-> d]
FracLeq(a, b) == a.num * b.den <= b.num * a.den

(***************************************************************************)
(* list.sort(key=final_score, reverse=True): stable, descending            *)
(***************************************************************************)
RECURSIVE InsertDesc(_, _)
InsertDesc(sorted, r) ==
    IF sorted = << >> THEN <<r>>
    ELSE IF Head(sorted).final_score >= r.final_score
         THEN <<Head(sorted)>> \o InsertDesc(Tail(sorted), r)
         ELSE <<r>> \o sorted

RECURSIVE SortDesc(_)
SortDesc(s) ==
    IF s = << >> THEN << >>
    ELSE InsertDesc(SortDesc(SubSeq(s, 1, Len(s) - 1)), s[Len(s)])

\* Python's floor division by a positive divisor
FloorDiv(a, b) == a \div b

(***************************************************************************)
(* BackgroundProcessor                                                     *)
(***************************************************************************)
ProcessingJob(clips, target_duration, created_at) ==
    [clips |-> clips, target_duration |-> target_duration,
     status |-> "pending", progress |-> Frac(0, 1),
     results |-> NoResults, error |-> NoError,
     created_at |-> created_at, started_at |-> NoTime, completed_at |-> NoTime]

NoCall == [max_age_hours |-> -1, ret |-> -1]

\* the locals of _process_clips_batch while it awaits the gather of the batch
\* clips[i : i + batch_size]
Suspended(job_id, i, all_results, processed_count) ==
    [job_id |-> job_id, i |-> i, all_results |-> all_results,
     processed_count |-> processed_count]

JobsInit ==
    /\ jobs = {}
    /\ jobObj = << >>
    /\ executors = EmptyBag
    /\ started = 0
    /\ now = 0
    /\ returned = NoCall

\* create_job: a fresh uuid4 key, a pending job stamped with the clock
create_job(clips, target_duration) ==
    /\ Len(jobObj) < Cardinality(JobIds)
    /\ jobObj' = Append(jobObj, ProcessingJob(clips, target_duration, now))
    /\ jobs' = jobs \cup {Len(jobObj) + 1}
    /\ returned' = NoCall
    /\ UNCHANGED <<executors, started, now>>

\* cancel_job: only a running job of the registry is cancelled
cancel_job(job_id) ==
    /\ job_id \in jobs
    /\ jobObj[job_id].status = "running"
    /\ jobObj' = [jobObj EXCEPT ![job_id].status = "cancelled"]
    /\ returned' = NoCall
    /\ UNCHANGED <<jobs, executors, started, now>>

\* (mutant) the selection forgets the floor of 5 clips
target_count_NoFloor(job, all_results) ==
    Min(Len(all_results), FloorDiv(job.target_duration, SecondsPerClip))

\* _process_clips_batch, lines 179-185: sort, select, store
target_count(job, all_results) ==
    Min(Len(all_results),
        Max(MinTargetCount, FloorDiv(job.target_duration, SecondsPerClip)))

SelectBest(job, all_results) ==
    Take(SortDesc(all_results), target_count(job, all_results))

\* the end of _process_clips_batch and of start_processing (lines 179-185 and
\* 120-132): None // 3 raises TypeError, which start_processing turns into
\* "failed" whatever the status was
Finish(job, all_results) ==
    IF all_results # << >> /\ job.target_duration = NoneTarget
    THEN [job EXCEPT !.status = "failed", !.error = "TypeError",
                     !.completed_at = now]
    ELSE LET stored == IF all_results # << >>
                       THEN [job EXCEPT !.results = SelectBest(job, all_results)]
                       ELSE job
         IN IF stored.status # "cancelled"
            THEN [stored EXCEPT !.status = "completed", !.completed_at = now,
                                !.progress = Frac(1, 1)]
            ELSE stored

\* the head of the batch loop (lines 144-153) for offset i
LoopContinues(job, i) == i < Len(job.clips) /\ job.status # "cancelled"

AtBatch(job, processed_count) ==
    [job EXCEPT !.progress = Frac(processed_count, Len(job.clips))]

\* start_processing up to the first await that suspends it
start_processing(job_id) ==
    /\ job_id \in jobs
    /\ LET job == [jobObj[job_id] EXCEPT !.status = "running",
                                         !.started_at = now,
                                         !.progress = Frac(0, 1)]
       IN IF LoopContinues(job, 0)
          THEN /\ started < MaxStarts
               /\ jobObj' = [jobObj EXCEPT ![job_id] = AtBatch(job, 0)]
               /\ executors' = executors (+) SetToBag({Suspended(job_id, 0, << >>, 0)})
               /\ started' = started + 1
          ELSE /\ jobObj' = [jobObj EXCEPT ![job_id] = Finish(job, << >>)]
               /\ UNCHANGED <<executors, started>>
    /\ returned' = NoCall
    /\ UNCHANGED <<jobs, now>>

\* asyncio.gather(*batch_tasks) without return_exceptions: the first exception
\* of any task is raised in the executor
BatchOf(clips, i) == SubSeq(clips, i + 1, Min(i + batch_size, Len(clips)))

\* (mutant) the gather collects exceptions instead of raising the first one
BatchRaises_Never(batch) == FALSE

BatchRaises(batch) == \E k \in 1..Len(batch) : batch[k] \in Unreadable

BatchResults(batch) == [k \in 1..Len(batch) |-> analyze_clip_fast(batch[k])]

\* the executor resumes from the gather and runs to the next gather or to the end
ExecutorStep(x) ==
    /\ x \in BagToSet(executors)
    /\ LET job == jobObj[x.job_id]
           batch == BatchOf(job.clips, x.i)
           all_results == IF BatchRaises(batch) THEN x.all_results
                          ELSE x.all_results \o BatchResults(batch)
           processed_count == IF BatchRaises(batch) THEN x.processed_count
                              ELSE x.processed_count + Len(batch)
           i == x.i + batch_size
       IN IF LoopContinues(job, i)
          THEN /\ jobObj' = [jobObj EXCEPT ![x.job_id] = AtBatch(job, processed_count)]
               /\ executors' = (executors (-) SetToBag({x})) (+)
                        SetToBag({Suspended(x.job_id, i, all_results, processed_count)})
          ELSE /\ jobObj' = [jobObj EXCEPT ![x.job_id] = Finish(job, all_results)]
               /\ executors' = executors (-) SetToBag({x})
    /\ returned' = NoCall
    /\ UNCHANGED <<jobs, started, now>>

\* (mutant) the cleanup forgets to look at the status
jobs_to_remove_AnyStatus(max_age_hours) ==
    {job_id \in jobs :
        now - jobObj[job_id].created_at > max_age_hours * SecondsPerHour}

\* cleanup_old_jobs
jobs_to_remove(max_age_hours) ==
    {job_id \in jobs :
        /\ jobObj[job_id].status \in {"completed", "failed", "cancelled"}
        /\ now - jobObj[job_id].created_at > max_age_hours * SecondsPerHour}

cleanup_old_jobs(max_age_hours) ==
    /\ jobs' = jobs \ jobs_to_remove(max_age_hours)
    /\ returned' = [max_age_hours |-> max_age_hours,
                    ret |-> Cardinality(jobs_to_remove(max_age_hours))]
    /\ UNCHANGED <<jobObj, executors, started, now>>

\* time passes
Tick ==
    /\ \E t \in Clock : t > now /\ now' = t
    /\ returned' = NoCall
    /\ UNCHANGED <<jobs, jobObj, executors, started>>

\* The registry touches no file: the file system stays as FilesIdle left it.
FilesIdle ==
    /\ fs = << >>
    /\ clock = 0
    /\ loaded = << >>
    /\ lastCall = << >>
    /\ writes = 0
    /\ conformed = << >>

\* ... and runs no assemble.
AssembleIdle ==
    /\ assembled = << >>
    /\ runs = 0

\* self.temp_dir = None
NoDir == 0

\* No temporary WAV file in the temp directory
NoWav == [exists |-> FALSE, audio |-> {}, writers |-> {}]

\* ... nor the operations of the later sections
MoreIdle ==
    /\ ranged = << >>
    /\ flight = << >>
    /\ processor = [temp_dir |-> NoDir, proxy_dir |-> NoDir]
    /\ assembling = << >>
    /\ analysis_cache = << >>
    /\ wavfile = NoWav
    /\ analyses = << >>

\* ... and neither the selector nor the analyzers are called.
AnalysisIdle ==
    /\ MoreIdle
    /\ selection = << >>
    /\ prev_gray = << >>
    /\ analysed = << >>
    /\ music = << >>
    /\ moments = << >>

JobsNext ==
    \/ \E cfg \in JobConfigs :
          create_job(cfg[1], cfg[2]) /\ UNCHANGED <<fileVars, asmVars, aiVars>>
    \/ \E job_id \in JobIds :
          start_processing(job_id) /\ UNCHANGED <<fileVars, asmVars, aiVars>>
    \/ \E job_id \in JobIds :
          cancel_job(job_id) /\ UNCHANGED <<fileVars, asmVars, aiVars>>
    \/ \E x \in BagToSet(executors) :
          ExecutorStep(x) /\ UNCHANGED <<fileVars, asmVars, aiVars>>
    \/ \E max_age_hours \in MaxAgeHours :
          cleanup_old_jobs(max_age_hours) /\ UNCHANGED <<fileVars, asmVars, aiVars>>
    \/ Tick /\ UNCHANGED <<fileVars, asmVars, aiVars>>

Init == JobsInit /\ FilesIdle /\ AssembleIdle /\ AnalysisIdle

Spec == Init /\ [][JobsNext]_vars

(***************************************************************************)
(* Properties of the job registry                                          *)
(***************************************************************************)
Created == 1..Len(jobObj)

\* pending -> running -> {completed | failed | cancelled}; a call that runs
\* without suspending may take several of these edges in one step
AllowedPaths ==
    {<<"pending", "running">>, <<"pending", "completed">>, <<"pending", "failed">>,
     <<"pending", "cancelled">>, <<"running", "completed">>, <<"running", "failed">>,
     <<"running", "cancelled">>}

\* C1: the status of a job changes only along pending -> running and
\* running -> completed | failed | cancelled, and never once it is terminal.
C1_StatusStateMachine ==
    [][\A job_id \in Created :
          \/ jobObj'[job_id].status = jobObj[job_id].status
          \/ <<jobObj[job_id].status, jobObj'[job_id].status>> \in AllowedPaths]_jobVars

\* C2: the successive values of a job's progress never decrease and lie in [0,1].
C2_ProgressMonotone ==
    [][\A job_id \in Created :
          /\ FracLeq(jobObj[job_id].progress, jobObj'[job_id].progress)
          /\ FracLeq(Frac(0, 1), jobObj'[job_id].progress)
          /\ FracLeq(jobObj'[job_id].progress, Frac(1, 1))]_jobVars

\* C3: a completed, failed or cancelled job has started_at and completed_at
\* set, with completed_at >= started_at >= created_at.
C3_TerminalTimestamps ==
    \A job_id \in Created :
        jobObj[job_id].status \in Terminal =>
            /\ jobObj[job_id].started_at # NoTime
            /\ jobObj[job_id].completed_at # NoTime
            /\ jobObj[job_id].completed_at >= jobObj[job_id].started_at
            /\ jobObj[job_id].started_at >= jobObj[job_id].created_at

\* C30: once a job is completed, failed or cancelled, its progress, results,
\* error, started_at and completed_at are not written again, by an executor
\* or by any operation of the registry.
C30_TerminalJobUntouched ==
    [][\A job_id \in Created :
          jobObj[job_id].status \in Terminal =>
              /\ jobObj'[job_id].progress = jobObj[job_id].progress
              /\ jobObj'[job_id].results = jobObj[job_id].results
              /\ jobObj'[job_id].error = jobObj[job_id].error
              /\ jobObj'[job_id].started_at = jobObj[job_id].started_at
              /\ jobObj'[job_id].completed_at = jobObj[job_id].completed_at
      ]_jobVars

\* The same of the steps that are no start_processing of the job (they start
\* no executor and leave its status and started_at alone); an executor that
\* resumes on a cancelled job stores its results, so this does not hold either
ResumedStepLeavesTerminalJob ==
    [][\A job_id \in Created :
          (/\ jobObj[job_id].status \in Terminal
           /\ jobObj'[job_id].started_at = jobObj[job_id].started_at
           /\ jobObj'[job_id].status = jobObj[job_id].status
           /\ started' = started) =>
              /\ jobObj'[job_id].progress = jobObj[job_id].progress
              /\ jobObj'[job_id].results = jobObj[job_id].results
              /\ jobObj'[job_id].error = jobObj[job_id].error
              /\ jobObj'[job_id].completed_at = jobObj[job_id].completed_at
      ]_jobVars

\* C4: once cancel_job has cancelled a running job, no further batch of that
\* job is started, the job stays in a terminal state, and its status is never
\* replaced by completed.
C4_CancelIsFinal ==
    [][\A job_id \in Created :
          jobObj[job_id].status = "cancelled" =>
              /\ jobObj'[job_id].status \in Terminal
              /\ jobObj'[job_id].status # "completed"
              /\ \A y \in BagToSet(executors') :
                     y.job_id = job_id => CopiesIn(y, executors') <= CopiesIn(y, executors)
      ]_jobVars

\* the results of the readable clips among the first n clips, in clip order
RECURSIVE ReadableResults(_, _)
ReadableResults(clips, n) ==
    IF n = 0 THEN << >>
    ELSE ReadableResults(clips, n - 1) \o
         (IF clips[n] \in Unreadable THEN << >>
          ELSE <<[clip_path |-> clips[n], final_score |-> final_score(clips[n])]>>)

\* the clips before offset n that lie in a batch none of whose clips is unreadable
InCleanBatch(clips, k) ==
    LET first == ((k - 1) \div batch_size) * batch_size + 1
        last == Min(first + batch_size - 1, Len(clips))
    IN \A m \in first..last : clips[m] \notin Unreadable

RECURSIVE CleanResults(_, _)
CleanResults(clips, n) ==
    IF n = 0 THEN << >>
    ELSE CleanResults(clips, n - 1) \o
         (IF InCleanBatch(clips, n)
          THEN <<[clip_path |-> clips[n], final_score |-> final_score(clips[n])]>>
          ELSE << >>)

\* C5 (as stated): when the analysis of a clip raises, only that clip is
\* dropped: an executor waiting for its next batch holds the results of every
\* readable clip of the batches before it.
C5_OnlyRaisingClipDropped ==
    \A x \in BagToSet(executors) :
        x.all_results = ReadableResults(jobObj[x.job_id].clips, x.i)

\* C5 (amended), state part: when the analysis of a clip raises, the whole batch
\* of that clip is dropped and not counted, the results of the batches without
\* a raising clip are kept, and a job fails only on a malformed target.
C5_BatchDroppedInv ==
    /\ \A x \in BagToSet(executors) :
          /\ x.all_results = CleanResults(jobObj[x.job_id].clips, x.i)
          /\ x.processed_count = Len(x.all_results)
    /\ \A job_id \in Created :
          jobObj[job_id].status = "failed" =>
              jobObj[job_id].target_duration = NoneTarget

\* C5 (amended), step part: an executor whose batch raised goes on with the
\* next batch unless the job is cancelled or the clips are used up, and then
\* the job, if it was running, ends completed (failed on a malformed target).
C5_BatchDroppedStep ==
    \A x \in BagToSet(executors) :
        LET job == jobObj[x.job_id]
            next == x.i + batch_size
        IN (/\ CopiesIn(x, executors') < CopiesIn(x, executors)
            /\ \E k \in (x.i + 1)..Min(next, Len(job.clips)) :
                  job.clips[k] \in Unreadable)
           => IF next < Len(job.clips) /\ job.status # "cancelled"
              THEN \E y \in BagToSet(executors') :
                     /\ y.job_id = x.job_id /\ y.i = next
                     /\ y.all_results = x.all_results
                     /\ CopiesIn(y, executors') > CopiesIn(y, executors)
              ELSE job.status = "running" =>
                     jobObj'[x.job_id].status =
                        IF x.all_results # << >> /\ job.target_duration = NoneTarget
                        THEN "failed" ELSE "completed"

C5_BatchDropped == []C5_BatchDroppedInv /\ [][C5_BatchDroppedStep]_jobVars

\* C5 witness: the first batch of a job raised and the executor is waiting for
\* the second batch with nothing kept from the first
C5_Witness ==
    \E x \in BagToSet(executors) :
        /\ x.i = batch_size
        /\ x.all_results = << >>
        /\ \E k \in 1..batch_size : jobObj[x.job_id].clips[k] \notin Unreadable

\* n results of pool with the highest scores, in non-increasing score order
IsTopSelection(results, pool, n) ==
    /\ Len(results) = n
    /\ \A k \in 1..(Len(results) - 1) :
          results[k].final_score >= results[k + 1].final_score
    /\ Range(results) \subseteq Range(pool)
    /\ \A k, m \in 1..Len(results) : k # m => results[k] # results[m]
    /\ \A r \in Range(pool) \ Range(results) :
          \A k \in 1..Len(results) : r.final_score <= results[k].final_score

ExpectedCount(k, target_duration) ==
    Min(k, Max(5, target_duration \div 3))

\* C6 (as stated): a completed job with k >= 1 successfully analyzed clips
\* holds the min(k, max(5, target // 3)) best of them in non-increasing order.
C6_BestOfAnalyzed ==
    \A job_id \in Created :
        LET job == jobObj[job_id]
            pool == ReadableResults(job.clips, Len(job.clips))
        IN (job.status = "completed" /\ Len(pool) >= 1) =>
              IsTopSelection(job.results, pool,
                             ExpectedCount(Len(pool), job.target_duration))

\* C6 (amended): a completed job with k >= 1 clips in batches free of raising
\* analyses holds the min(k, max(5, target // 3)) best results of those clips
\* in non-increasing order.
C6_BestOfCleanBatches ==
    \A job_id \in Created :
        LET job == jobObj[job_id]
            pool == CleanResults(job.clips, Len(job.clips))
        IN (job.status = "completed" /\ Len(pool) >= 1) =>
              IsTopSelection(job.results, pool,
                             ExpectedCount(Len(pool), job.target_duration))

\* C6 witness: a completed job that kept 5 of 6 results next to a completed
\* job that lost a batch
C6_Witness ==
    /\ \E job_id \in Created :
          /\ jobObj[job_id].status = "completed"
          /\ Len(jobObj[job_id].clips) = 6
          /\ Len(jobObj[job_id].results) = 5
    /\ \E job_id \in Created :
          /\ jobObj[job_id].status = "completed"
          /\ Len(jobObj[job_id].clips) = 4
          /\ Len(jobObj[job_id].results) = 1

\* C7: cleanup_old_jobs removes exactly the terminal jobs older than the
\* threshold, keeps every pending or running job, changes no job and returns
\* the number of jobs it removed.
C7_Cleanup ==
    [][returned' # NoCall =>
          LET old == {job_id \in jobs :
                        /\ jobObj[job_id].status \in Terminal
                        /\ now - jobObj[job_id].created_at >
                              returned'.max_age_hours * SecondsPerHour}
          IN /\ jobs' = jobs \ old
             /\ returned'.ret = Cardinality(old)
             /\ jobObj' = jobObj
             /\ \A job_id \in jobs :
                   jobObj[job_id].status \in {"pending", "running"} => job_id \in jobs'
      ]_jobVars

\* C7 witness: a cleanup has just removed one terminal job and kept another
\* terminal job that is not old enough
C7_Witness ==
    /\ returned # NoCall
    /\ returned.ret = 1
    /\ \E job_id \in jobs : jobObj[job_id].status \in Terminal

(***************************************************************************)
(* The timeline writer and reader (worker/timeline.py)                     *)
(*                                                                         *)
(* A path is [dir, name]; dir = "" makes it relative to the working        *)
(* directory.  A string is the sequence of its parts, so the text          *)
(* "path:mtime:size" is <<path, mtime, size>> and the text json.dump       *)
(* writes is the sequence of its <<key, value>> members in key order.      *)
(***************************************************************************)
cwd == "/work"

\* Times are counted in half microseconds: ffprobe reports whole
\* microseconds, and the only division the code applies to a time it probed
\* is by two.
Second == 2 * 1000000
Millisecond == Second \div 1000
Microsecond == Second \div 1000000

\* round(x / d) for x >= 0, an exact tie going to the even neighbour
RoundDiv(x, d) ==
    LET q == x \div d
        r == x % d
    IN  IF 2 * r < d THEN q
        ELSE IF 2 * r > d THEN q + 1
        ELSE IF q % 2 = 0 THEN q ELSE q + 1

\* round(x, 3)
round3(x) == Millisecond * RoundDiv(x, Millisecond)

Path(dir, name) == [dir |-> dir, name |-> name]

\* os.path.abspath
abspath(path) == IF path.dir = "" THEN Path(cwd, path.name) ELSE path

\* os.path.isabs
isabs(path) == path.dir # ""

ClipA == Path(cwd, "a.mp4")
ClipB == Path(cwd, "b.mp4")
Music == Path(cwd, "m.mp3")
SourceFiles == {ClipA, ClipB, Music}
TimelinePaths == {Path("/out", "t1.json"), Path("/out", "t2.json")}
MasterPath == Path("/out", "master.mp4")
AbsPaths == SourceFiles \cup TimelinePaths \cup {MasterPath}

\* The instants the wall clock shows when a call is made.
WallClock == 1..2

\* A file as os.stat and open() see it; NoFile where os.path.exists is false.
File(mtime, size, content) ==
    [exists |-> TRUE, mtime |-> mtime, size |-> size, content |-> content]
NoFile == [exists |-> FALSE, mtime |-> 0, size |-> 0, content |-> << >>]

\* st_size of the media files (they are never rewritten here)
MediaSize == 1000

\* hashlib.sha256(x).hexdigest(): equal digests exactly for equal inputs
sha256(x) == [hexdigest |-> x]

\* _calculate_file_hash reads only os.stat: the path, st_mtime and st_size
calculate_file_hash(F, file_path) ==
    sha256(<<file_path, F[file_path].mtime, F[file_path].size>>)

\* sort_keys=True: the keys a timeline can have, in lexicographic order
SortedKeys ==
    << "bar_markers", "clips", "created_at", "fps", "music", "source_hashes",
       "target_seconds", "tempo", "time_signature", "timeline_hash",
       "used_beat_snapping", "used_scene_detect", "version" >>

\* json.dump(timeline, f, indent=2, sort_keys=True)
json_dump(timeline) ==
    LET keys == SelectSeq(SortedKeys, LAMBDA k : k \in DOMAIN timeline)
    IN  [i \in 1..Len(keys) |-> <<keys[i], timeline[keys[i]]>>]

\* json.load(f)
json_load(text) ==
    [k \in {text[i][1] : i \in 1..Len(text)} |->
        text[CHOOSE i \in 1..Len(text) : text[i][1] = k][2]]

\* The lines json.dump with indent=2 writes for one member: a list or a dict
\* takes a line for each bracket and its elements follow one per line (a
\* clip, itself a dict of three members, takes five).
MemberLines(key, value) ==
    CASE key = "clips" -> IF Len(value) = 0 THEN 1 ELSE 2 + 5 * Len(value)
      [] key = "bar_markers" -> IF Len(value) = 0 THEN 1 ELSE 2 + Len(value)
      [] key = "source_hashes" ->
           IF DOMAIN value = {} THEN 1 ELSE 2 + Cardinality(DOMAIN value)
      [] OTHER -> 1

RECURSIVE TextLines(_, _)
TextLines(text, n) ==
    IF n = 0 THEN 2
    ELSE TextLines(text, n - 1) + MemberLines(text[n][1], text[n][2])

\* st_size of a written timeline, counted in lines of text
st_size(text) == TextLines(text, Len(text))

\* d without the key k
WithoutKey(d, k) == [x \in DOMAIN d \ {k} |-> d[x]]

\* The timeline dict write_timeline builds before it hashes anything
\* (lines 43-80); bar_markers, tempo and time_signature are members only
\* when the caller passed them.
TimelineDict(F, t, a) ==
    LET clips_absolute ==
            [i \in 1..Len(a.clips) |->
                [a.clips[i] EXCEPT !.src = abspath(a.clips[i].src)]]
        music_absolute == abspath(a.music_path)
        hashed == {x \in {clips_absolute[i].src : i \in 1..Len(a.clips)}
                           \cup {music_absolute} : F[x].exists}
        optional ==
            [k \in DOMAIN a \cap {"bar_markers", "tempo", "time_signature"}
                |-> a[k]]
    IN  optional @@
        [ clips              |-> clips_absolute,
          fps                |-> a.fps,
          target_seconds     |-> a.target_seconds,
          music              |-> music_absolute,
          used_scene_detect  |-> a.used_scene_detect,
          used_beat_snapping |-> a.used_beat_snapping,
          created_at         |-> t,
          version            |-> "1.0",
          source_hashes      |->
              [x \in hashed |-> calculate_file_hash(F, x)] ]

\* timeline_hash (line 88): _calculate_file_hash of the file just written
timeline_hash(F, timeline_path) == calculate_file_hash(F, timeline_path)

\* The file system write_timeline leaves: the first dump, the hash of that
\* file, the second dump with the hash as a member (lines 82-93).
WriteTimeline(F, t, a) ==
    LET timeline == TimelineDict(F, t, a)
        timeline_path == abspath(a.output_path)
        text1 == json_dump(timeline)
        F1 == [F EXCEPT ![timeline_path] = File(t, st_size(text1), text1)]
        text2 == json_dump(("timeline_hash" :> timeline_hash(F1, timeline_path))
                           @@ timeline)
    IN  [F1 EXCEPT ![timeline_path] = File(t, st_size(text2), text2)]

Called(op, path, raised) == [op |-> op, path |-> path, raised |-> raised]

write_timeline(a) ==
    /\ writes < MaxWrites
    /\ fs' = WriteTimeline(fs, clock, a)
    /\ lastCall' = Called("write_timeline", abspath(a.output_path), "None")
    /\ writes' = writes + 1
    /\ UNCHANGED <<clock, loaded, conformed>>

\* What read_timeline raises for the parsed dict, "None" when it returns it
ReadError(timeline) ==
    IF ~ ({"clips", "fps", "target_seconds", "music", "timeline_hash"}
            \subseteq DOMAIN timeline)
    THEN "ValueError"
    ELSE IF \E i \in 1..Len(timeline.clips) :
              timeline.clips[i].in >= timeline.clips[i].out
    THEN "ValueError"
    ELSE "None"

read_timeline(timeline_path) ==
    /\ IF ~ fs[timeline_path].exists
       THEN /\ lastCall' = Called("read_timeline", timeline_path,
                                  "FileNotFoundError")
            /\ UNCHANGED loaded
       ELSE LET timeline == json_load(fs[timeline_path].content)
            IN  /\ lastCall' = Called("read_timeline", timeline_path,
                                      ReadError(timeline))
                /\ loaded' = IF ReadError(timeline) = "None"
                             THEN timeline ELSE loaded
    /\ UNCHANGED <<fs, clock, writes, conformed>>

\* The arguments that hand a read timeline back to write_timeline: its clips,
\* target, music, fps, flags and markers.
ArgsOf(timeline, output_path) ==
    [k \in DOMAIN timeline \cap {"bar_markers", "tempo", "time_signature"}
        |-> timeline[k]] @@
    [ clips              |-> timeline.clips,
      target_seconds     |-> timeline.target_seconds,
      music_path         |-> timeline.music,
      output_path        |-> output_path,
      fps                |-> timeline.fps,
      used_scene_detect  |-> timeline.used_scene_detect,
      used_beat_snapping |-> timeline.used_beat_snapping ]

\* write_timeline called with the content read_timeline returned
write_back(output_path) ==
    /\ DOMAIN loaded # {}
    /\ writes < MaxWrites
    /\ fs' = WriteTimeline(fs, clock, ArgsOf(loaded, output_path))
    /\ lastCall' = Called("write_back", output_path, "None")
    /\ writes' = writes + 1
    /\ UNCHANGED <<clock, loaded, conformed>>

\* The environment: a source file is modified (its mtime becomes the time
\* of the change), or deleted.
touch(path) ==
    /\ fs[path].exists
    /\ fs' = [fs EXCEPT ![path].mtime = clock]
    /\ lastCall' = Called("touch", path, "None")
    /\ UNCHANGED <<clock, loaded, writes, conformed>>

remove(path) ==
    /\ fs[path].exists
    /\ fs' = [fs EXCEPT ![path] = NoFile]
    /\ lastCall' = Called("remove", path, "None")
    /\ UNCHANGED <<clock, loaded, writes, conformed>>

TickClock ==
    /\ clock + 1 \in WallClock
    /\ clock' = clock + 1
    /\ lastCall' = Called("tick", Music, "None")
    /\ UNCHANGED <<fs, loaded, writes, conformed>>

\* ... its content is rewritten: another size at the time of the change.
OtherSize == MediaSize + 24

modify(path) ==
    /\ fs[path].exists
    /\ fs' = [fs EXCEPT ![path].mtime = clock,
                        ![path].size = IF @ = MediaSize THEN OtherSize
                                       ELSE MediaSize]
    /\ lastCall' = Called("modify", path, "None")
    /\ UNCHANGED <<clock, loaded, writes, conformed>>

(***************************************************************************)
(* The conform stage (worker/conform.py)                                   *)
(***************************************************************************)
\* validate_timeline_sources as if it only looked for the files
validate_timeline_sources_ExistsOnly(F, timeline) ==
    \A file_path \in DOMAIN timeline.source_hashes : F[file_path].exists

\* validate_timeline_sources
validate_timeline_sources(F, timeline) ==
    \A file_path \in DOMAIN timeline.source_hashes :
        /\ F[file_path].exists
        /\ calculate_file_hash(F, file_path) =
               timeline.source_hashes[file_path]

SourcesChangedError == "ValueError: Timeline source files have changed or are missing"

\* What one conform call did
Conform(ffmpeg, output) == [ffmpeg |-> ffmpeg, output |-> output]
NoConform == Conform(0, Music)

\* The master lasts what the concat list asks for: for every clip its
\* "duration" line, out - in written with three decimals.
RECURSIVE MasterDuration(_, _)
MasterDuration(clips, n) ==
    IF n = 0 THEN 0
    ELSE MasterDuration(clips, n - 1) + round3(clips[n].out - clips[n].in)

Master(t, clips) ==
    File(t, MediaSize, << [duration |-> MasterDuration(clips, Len(clips))] >>)

\* What read_timeline raises on the file at timeline_path
ReadRaises(F, timeline_path) ==
    IF ~ F[timeline_path].exists THEN "FileNotFoundError"
    ELSE ReadError(json_load(F[timeline_path].content))

\* conform_from_timeline: read, validate the sources, then one transcoder
\* run for the video (it fails on a clip that is missing) and, unless
\* no_audio, one for the music overlay (it fails without the music file).
conform_from_timeline(timeline_path, output_path, no_audio) ==
    LET timeline == json_load(fs[timeline_path].content)
        output == abspath(output_path)
        Ends(raised, ffmpeg) ==
            /\ lastCall' = Called("conform_from_timeline", timeline_path, raised)
            /\ conformed' = Conform(ffmpeg, output)
    IN  /\ IF ReadRaises(fs, timeline_path) # "None"
           THEN Ends(ReadRaises(fs, timeline_path), 0) /\ UNCHANGED fs
           ELSE IF ~ validate_timeline_sources(fs, timeline)
           THEN Ends(SourcesChangedError, 0) /\ UNCHANGED fs
           ELSE IF \E i \in 1..Len(timeline.clips) :
                     ~ fs[abspath(timeline.clips[i].src)].exists
           THEN Ends("CalledProcessError", 1) /\ UNCHANGED fs
           ELSE IF no_audio
           THEN /\ Ends("None", 1)
                /\ fs' = [fs EXCEPT ![output] = Master(clock, timeline.clips)]
           ELSE IF ~ fs[abspath(timeline.music)].exists
           THEN Ends("CalledProcessError", 2) /\ UNCHANGED fs
           ELSE /\ Ends("None", 2)
                /\ fs' = [fs EXCEPT ![output] = Master(clock, timeline.clips)]
        /\ UNCHANGED <<clock, loaded, writes>>

\* Arguments of write_timeline: a relative and an absolute clip path, a clip
\* list read_timeline rejects (in >= out), with and without the music
\* analysis.
TwoClips ==
    << [src |-> Path("", "a.mp4"), in |-> 0, out |-> 2 * Second],
       [src |-> ClipB, in |-> 500 * Millisecond, out |-> 2500 * Millisecond] >>
BadClips == << [src |-> ClipA, in |-> Second, out |-> Second] >>

PlainArgs(clips, output_path) ==
    [ clips |-> clips, target_seconds |-> 20, music_path |-> Path("", "m.mp3"),
      output_path |-> output_path, fps |-> 25,
      used_scene_detect |-> FALSE, used_beat_snapping |-> FALSE ]

MusicArgs(clips, output_path) ==
    [ bar_markers |-> <<0, 2 * Second>>, tempo |-> 120, time_signature |-> "4/4" ]
    @@ [PlainArgs(clips, output_path) EXCEPT !.used_beat_snapping = TRUE]

WriteArgs ==
    UNION { { PlainArgs(TwoClips, path), MusicArgs(TwoClips, path),
              PlainArgs(BadClips, path) } : path \in TimelinePaths }

\* The files a change or a deletion can hit
Changeable == {ClipA}

TimelineInit ==
    /\ fs = [path \in AbsPaths |->
                IF path \in SourceFiles THEN File(0, MediaSize, << >>)
                ELSE NoFile]
    /\ clock = 1
    /\ loaded = << >>
    /\ lastCall = Called("none", Music, "None")
    /\ writes = 0
    /\ conformed = NoConform

TimelineNext ==
    \/ \E a \in WriteArgs : write_timeline(a) /\ UNCHANGED <<jobVars, asmVars, aiVars>>
    \/ \E path \in TimelinePaths : read_timeline(path) /\ UNCHANGED <<jobVars, asmVars, aiVars>>
    \/ \E path \in TimelinePaths : write_back(path) /\ UNCHANGED <<jobVars, asmVars, aiVars>>
    \/ \E path \in Changeable : touch(path) /\ UNCHANGED <<jobVars, asmVars, aiVars>>
    \/ \E path \in Changeable : remove(path) /\ UNCHANGED <<jobVars, asmVars, aiVars>>
    \/ TickClock /\ UNCHANGED <<jobVars, asmVars, aiVars>>

InitTimeline == JobsInit /\ TimelineInit /\ AssembleIdle /\ AnalysisIdle

SpecTimeline == InitTimeline /\ [][TimelineNext]_vars

\* Write, let the sources change, conform.
ConformNext ==
    \/ \E a \in WriteArgs : write_timeline(a) /\ UNCHANGED <<jobVars, asmVars, aiVars>>
    \/ \E path \in Changeable : touch(path) /\ UNCHANGED <<jobVars, asmVars, aiVars>>
    \/ \E path \in Changeable : remove(path) /\ UNCHANGED <<jobVars, asmVars, aiVars>>
    \/ \E path \in Changeable : modify(path) /\ UNCHANGED <<jobVars, asmVars, aiVars>>
    \/ \E path \in TimelinePaths, no_audio \in BOOLEAN :
          /\ conform_from_timeline(path, MasterPath, no_audio)
          /\ UNCHANGED <<jobVars, asmVars, aiVars>>
    \/ TickClock /\ UNCHANGED <<jobVars, asmVars, aiVars>>

InitConform == JobsInit /\ TimelineInit /\ AssembleIdle /\ AnalysisIdle

SpecConform == InitConform /\ [][ConformNext]_vars

(***************************************************************************)
(* Properties of the timeline writer                                       *)
(***************************************************************************)
\* The timeline stored at a path
StoredTimeline(path) == json_load(fs[path].content)

\* C8: every timeline the writer has written stores as timeline_hash the
\* SHA-256 of its own serialization (indent 2, sorted keys) taken with the
\* timeline_hash member absent.
C8_HashOfSerialization ==
    \A path \in TimelinePaths :
        fs[path].exists =>
            StoredTimeline(path).timeline_hash =
                sha256(json_dump(WithoutKey(StoredTimeline(path),
                                            "timeline_hash")))

\* The source files of a timeline are as its source_hashes recorded them:
\* the recorded ones exist with the same path, mtime and size, the others
\* are still missing.
SourcesUnchanged(timeline) ==
    \A x \in {timeline.clips[i].src : i \in 1..Len(timeline.clips)}
               \cup {timeline.music} :
        IF x \in DOMAIN timeline.source_hashes
        THEN /\ fs[x].exists
             /\ calculate_file_hash(fs, x) = timeline.source_hashes[x]
        ELSE ~ fs[x].exists

\* C9: when the content read from an emitted timeline has just been written
\* again with the source files unchanged, the new file equals the one that
\* was read in every member but created_at: source_hashes and timeline_hash
\* included.
C9_RoundTrip ==
    (lastCall.op = "write_back" /\ SourcesUnchanged(loaded)) =>
        json_dump(WithoutKey(StoredTimeline(lastCall.path), "created_at")) =
            json_dump(WithoutKey(loaded, "created_at"))

\* What does survive the round trip: every member but created_at and
\* timeline_hash, source_hashes included.
RoundTripButHash ==
    (lastCall.op = "write_back" /\ SourcesUnchanged(loaded)) =>
        WithoutKey(WithoutKey(StoredTimeline(lastCall.path), "created_at"),
                   "timeline_hash") =
            WithoutKey(WithoutKey(loaded, "created_at"), "timeline_hash")

(***************************************************************************)
(* The assembler (worker/video_processor.py): one run of                   *)
(* assemble_from_sources is one step.  The transcoder is exact: a proxy    *)
(* lasts as long as its clip, and a cut at start_time of segment_duration  *)
(* lasts segment_duration or up to the end of its input.  A cut segment is *)
(* [clip, start, duration]: the clip it shows, from where, for how long.   *)
(***************************************************************************)
ClipC == Path(cwd, "c.mp4")
ClipD == Path(cwd, "d.mp4")
ClipX == Path(cwd, "x.mp4")     \* no such file
VideoFiles == {ClipA, ClipB, ClipC, ClipD}

\* mkdtemp(prefix="clipsense_"): a fresh directory for every run
TempDirs == << "/tmp/clipsense_1", "/tmp/clipsense_2" >>

MediaFile(mtime, duration) ==
    File(mtime, MediaSize, << [duration |-> duration] >>)

\* What ffprobe reports for each clip
ClipDuration(path) ==
    CASE path = ClipA -> 10 * Second
      [] path = ClipB -> 3000600 * Microsecond
      [] path = ClipC -> 1999600 * Microsecond
      [] path = ClipD -> 800 * Millisecond

\* _get_video_duration
get_video_duration(F, video_path) == F[abspath(video_path)].content[1].duration

\* A beat detector with three beats to the bar
time_signature_Three == 4 - 1

\* SimpleBeatDetector
time_signature == 4
min_tempo == 60
max_tempo == 200

\* np.arange(0, duration, interval)
arange(duration, interval) ==
    IF duration <= 0 THEN << >>
    ELSE [k \in 1..((duration + interval - 1) \div interval) |->
             (k - 1) * interval]

\* SimpleBeatDetector._fallback_analysis: beats every half second from 0
\* until one passes target_duration by more than a bar, a bar on every
\* fourth beat.
fallback_tempo == 120

fallback_analysis(target_duration) ==
    LET beat_interval == (60 * Second) \div fallback_tempo
        bar_interval == beat_interval * time_signature
        beat_times ==
            arange(target_duration * Second + bar_interval + 1, beat_interval)
        bars == Len(beat_times) \div time_signature
    IN  [ tempo          |-> fallback_tempo,
          beat_times     |-> beat_times,
          bar_times      |-> [j \in 1..bars |-> beat_times[j * time_signature]],
          time_signature |-> "4/4" ]

\* y[:max_samples] (lines 58-60): a negative max_samples cuts that much off
\* the end
Truncated(length, target_duration) ==
    IF target_duration >= 0 THEN Min(length, target_duration * Second)
    ELSE Max(0, length + target_duration * Second)

\* SimpleBeatDetector.analyze_music on a track of m.length whose music starts
\* at m.music_start and is tracked at m.tempo: regular beats and bars from
\* the start of the music, up to target_duration; the fallback when that
\* leaves no bar (aligned_bars[0] raises inside the try).
analyze_music(m, target_duration) ==
    LET tempo == Max(min_tempo, Min(max_tempo, m.tempo))
        duration == Truncated(m.length, target_duration) - m.music_start
        beat_interval == (60 * Second) \div tempo
        bar_interval == beat_interval * time_signature
        Aligned(times) ==
            SelectSeq([k \in 1..Len(times) |-> times[k] + m.music_start],
                      LAMBDA t : t <= target_duration * Second)
        aligned_bars == Aligned(arange(duration, bar_interval))
    IN  IF aligned_bars = << >> THEN fallback_analysis(target_duration)
        ELSE [ tempo          |-> tempo,
               beat_times     |-> Aligned(arange(duration, beat_interval)),
               bar_times      |-> aligned_bars,
               time_signature |-> "4/4" ]

\* ffmpeg -ss start_time -t segment_duration on a proxy of clip number clip
ffmpeg_trim(clip, duration, start_time, segment_duration) ==
    [ clip     |-> clip,
      start    |-> start_time,
      duration |-> Min(segment_duration, duration - start_time) ]

\* max(0, (duration - segment_duration) / 2)
MiddleStart(duration, segment_duration) ==
    Max(0, (duration - segment_duration) \div 2)

\* start_time = max(0, min(t, duration - segment_duration)), moved to the
\* middle when it is too close to the end
ClampStart(t, duration, segment_duration) ==
    LET start_time == Max(0, Min(t, duration - segment_duration))
    IN  IF start_time + segment_duration > duration
        THEN MiddleStart(duration, segment_duration)
        ELSE start_time

\* beat_intervals / bar_intervals: the gaps between the markers, the last
\* one (2.0 s without any) repeated until there is one for each of n proxies
DefaultInterval == 2 * Second

Intervals(times, n) ==
    LET gaps == [k \in 1..(Len(times) - 1) |-> times[k + 1] - times[k]]
        last_interval ==
            IF gaps # << >> THEN gaps[Len(gaps)] ELSE DefaultInterval
    IN  IF n > Len(gaps)
        THEN gaps \o [k \in 1..(n - Len(gaps)) |-> last_interval]
        ELSE gaps

\* _trim_segments: the same duration from the middle of every proxy
trim_segments(durations, segment_duration) ==
    [i \in 1..Len(durations) |->
        ffmpeg_trim(i, durations[i],
                    MiddleStart(durations[i], segment_duration),
                    segment_duration)]

\* _trim_segments_with_beats
trim_segments_with_beats(durations, beat_times) ==
    LET beat_intervals == Intervals(beat_times, Len(durations))
    IN  [i \in 1..Len(durations) |->
            ffmpeg_trim(i, durations[i],
                        ClampStart(beat_times[i], durations[i],
                                   beat_intervals[i]),
                        beat_intervals[i])]

\* VisualAnalyzer.find_best_moments_in_duration: what the frames show is not
\* modelled, so the answer is an input: no moment, the first analysed frame
\* or the frame in the middle of the range.  The method adds start_time to
\* timestamps that already count from the start of the video.
find_best_moments_in_duration(pick, start_time, duration) ==
    CASE pick = "none" -> << >>
      [] pick = "first" -> << start_time + start_time >>
      [] pick = "middle" -> << start_time + (start_time + duration \div 2) >>

SearchCap == 10 * Second

\* _trim_segments_with_bars
trim_segments_with_bars(durations, bar_times, pick) ==
    LET bar_intervals == Intervals(bar_times, Len(durations))
        Cut(i) ==
            LET duration == durations[i]
                segment_duration == bar_intervals[i]
                video_time == bar_times[i] % duration
                search_window == Min(SearchCap, (3 * duration) \div 10)
                search_start == Max(0, video_time - search_window \div 2)
                search_end == Min(duration, search_start + search_window)
                best_moments ==
                    find_best_moments_in_duration(pick, search_start,
                                                  search_end - search_start)
                t == IF best_moments # << >>
                     THEN best_moments[1] - search_start
                     ELSE video_time
            IN  ffmpeg_trim(i, duration,
                            ClampStart(t, duration, segment_duration),
                            segment_duration)
    IN  [i \in 1..Len(durations) |-> Cut(i)]

RECURSIVE TotalDuration(_, _)
TotalDuration(segments, n) ==
    IF n = 0 THEN 0 ELSE TotalDuration(segments, n - 1) + segments[n].duration

\* _loop_segments_to_duration from current_duration on, the for loop standing
\* at segment number k: whole segments while they fit, then the next one cut
\* (ffmpeg -t remaining_needed) to what is still needed.
RECURSIVE LoopFrom(_, _, _, _)
LoopFrom(segments, target, current_duration, k) ==
    IF current_duration >= target THEN << >>
    ELSE LET remaining_needed == target - current_duration
             next == IF k = Len(segments) THEN 1 ELSE k + 1
         IN  IF segments[k].duration <= remaining_needed
             THEN << segments[k] >> \o
                  LoopFrom(segments, target,
                           current_duration + segments[k].duration, next)
             ELSE << [segments[k] EXCEPT !.duration = remaining_needed] >>

loop_segments_to_duration(segments, target) == LoopFrom(segments, target, 0, 1)

\* The while loop of _loop_segments_to_duration (line 401) ends: the target is
\* reached at once, or a pass over the segments adds to current_duration.
LoopReturns(segments, target) ==
    target <= 0 \/ \E k \in 1..Len(segments) : segments[k].duration > 0

\* _generate_timeline_data: "in" is placed from the marker (or the middle) and
\* the probed durations, both ends rounded to the millisecond.
generate_timeline_data(F, original_clips, trimmed_segments, beat_times, bar_times) ==
    LET timing_markers == IF bar_times # << >> THEN bar_times ELSE beat_times
        Entry(i) ==
            LET duration == trimmed_segments[i].duration
                original_duration == get_video_duration(F, original_clips[i])
                start_time ==
                    IF timing_markers # << >> /\ i <= Len(timing_markers)
                    THEN Max(0, Min(timing_markers[i],
                                    original_duration - duration))
                    ELSE Max(0, (original_duration - duration) \div 2)
            IN  [ src |-> abspath(original_clips[i]),
                  in  |-> round3(start_time),
                  out |-> round3(start_time + duration) ]
    IN  [i \in 1..Min(Len(original_clips), Len(trimmed_segments)) |-> Entry(i)]

\* The strategy assemble_from_sources picks (lines 113-123) and its cuts
Strategy(n, music_analysis) ==
    IF Len(music_analysis.bar_times) >= n THEN "bars"
    ELSE IF Len(music_analysis.beat_times) >= n THEN "beats"
    ELSE "uniform"

TrimmedSegments(durations, music_analysis, target_duration, pick) ==
    CASE Strategy(Len(durations), music_analysis) = "bars" ->
           trim_segments_with_bars(durations, music_analysis.bar_times, pick)
      [] Strategy(Len(durations), music_analysis) = "beats" ->
           trim_segments_with_beats(durations, music_analysis.beat_times)
      [] OTHER ->
           trim_segments(durations,
                         (target_duration * Second) \div Len(durations))

\* Duration filling that never loops
FilledSegments_NeverFill(trimmed_segments, target_duration) == trimmed_segments

\* Duration filling (lines 126-133): loop when the cuts add up to less than
\* 0.9 * target_duration
FilledSegments(trimmed_segments, target_duration) ==
    IF 10 * TotalDuration(trimmed_segments, Len(trimmed_segments))
           < 9 * target_duration * Second
    THEN loop_segments_to_duration(trimmed_segments, target_duration * Second)
    ELSE trimmed_segments

\* The exception a run ends with, "None" when it returns: ffmpeg fails on a
\* clip it cannot open; bar_times[0] is printed whatever the strategy.
Raised(F, clips, music_analysis) ==
    IF \E i \in 1..Len(clips) : ~ F[abspath(clips[i])].exists
    THEN "CalledProcessError"
    ELSE IF music_analysis.bar_times = << >> THEN "IndexError"
    ELSE "None"

\* The outcome of a run whose duration filling loops without end: the call
\* does not return, and the loop awaits nothing, so the worker's event loop
\* serves no further call.
NeverReturns == "never returns"

\* Duration filling is entered (line 130) and its loop does not end
Hangs(trimmed_segments, target_duration) ==
    /\ 10 * TotalDuration(trimmed_segments, Len(trimmed_segments))
           < 9 * target_duration * Second
    /\ ~ LoopReturns(trimmed_segments, target_duration * Second)

timeline_path(temp_dir) == Path(temp_dir, "timeline.json")

assemble_from_sources(clips, music_path, target_duration, m, pick) ==
    /\ runs < Len(TempDirs)
    /\ lastCall.raised # NeverReturns
    /\ LET temp_dir == TempDirs[runs + 1]
           music_analysis == analyze_music(m, target_duration)
           durations ==
               [i \in 1..Len(clips) |-> get_video_duration(fs, clips[i])]
           trimmed ==
               TrimmedSegments(durations, music_analysis, target_duration,
                               pick)
           raised ==
               IF Raised(fs, clips, music_analysis) # "None"
               THEN Raised(fs, clips, music_analysis)
               ELSE IF Hangs(trimmed, target_duration) THEN NeverReturns
               ELSE "None"
           trimmed_segments == FilledSegments(trimmed, target_duration)
           timeline_data ==
               generate_timeline_data(fs, clips, trimmed_segments,
                                      music_analysis.beat_times,
                                      music_analysis.bar_times)
       IN  IF raised # "None"
           THEN /\ assembled' = [ clips |-> clips, temp_dir |-> temp_dir,
                                  target_duration |-> target_duration,
                                  music_analysis |-> music_analysis,
                                  raised |-> raised, trimmed |-> << >>,
                                  segments |-> << >> ]
                /\ lastCall' = Called("assemble_from_sources",
                                      timeline_path(temp_dir), raised)
                /\ UNCHANGED <<fs, writes>>
           ELSE /\ assembled' = [ clips |-> clips, temp_dir |-> temp_dir,
                                  target_duration |-> target_duration,
                                  music_analysis |-> music_analysis,
                                  raised |-> "None", trimmed |-> trimmed,
                                  segments |-> trimmed_segments ]
                /\ fs' = WriteTimeline(fs, clock,
                           [ clips |-> timeline_data,
                             target_seconds |-> target_duration,
                             music_path |-> music_path,
                             output_path |-> timeline_path(temp_dir),
                             fps |-> 25,
                             used_scene_detect |-> FALSE,
                             used_beat_snapping |-> TRUE,
                             bar_markers |-> music_analysis.bar_times,
                             tempo |-> music_analysis.tempo,
                             time_signature |->
                                 music_analysis.time_signature ])
                /\ writes' = writes + 1
                /\ lastCall' = Called("assemble_from_sources",
                                      timeline_path(temp_dir), "None")
    /\ runs' = runs + 1
    /\ UNCHANGED <<clock, loaded, conformed>>

\* Clip lists of no clip and of one to three clips: a clip longer than any segment, clips a
\* fraction of a millisecond off a whole one, a clip shorter than a bar, a
\* relative path, a missing file.
AssembleClips ==
    { << >>, << ClipA >>, << ClipC >>, << Path("", "a.mp4"), ClipB >>,
      << ClipB, ClipA, ClipD >>, << ClipD, ClipC, ClipB >>,
      << ClipX, ClipA >> }

\* target_seconds is any int: the request model sets no range
Targets == {-3, 3, 6, 20}

\* Music: tracked at 120 and at 60 BPM (starting after 0.1 s of silence), a
\* track of 0.4 s, an empty one.
MusicInputs ==
    { [tempo |-> 120, music_start |-> 0, length |-> 30 * Second],
      [tempo |-> 60, music_start |-> 100 * Millisecond, length |-> 30 * Second],
      [tempo |-> 120, music_start |-> 0, length |-> 400 * Millisecond],
      [tempo |-> 120, music_start |-> 0, length |-> 0] }

Picks == {"none", "first", "middle"}

AssembleInit ==
    /\ fs = [path \in VideoFiles \cup {ClipX, Music}
                  \cup {timeline_path(TempDirs[k]) : k \in 1..Len(TempDirs)} |->
                IF path \in VideoFiles THEN MediaFile(0, ClipDuration(path))
                ELSE IF path = Music THEN File(0, MediaSize, << >>)
                ELSE NoFile]
    /\ clock = 1
    /\ loaded = << >>
    /\ lastCall = Called("none", Music, "None")
    /\ writes = 0
    /\ conformed = NoConform
    /\ assembled = << >>
    /\ runs = 0

AssembleNext ==
    \/ \E clips \in AssembleClips, target_duration \in Targets,
          m \in MusicInputs, pick \in Picks :
          /\ assemble_from_sources(clips, Path("", "m.mp3"), target_duration,
                                   m, pick)
          /\ UNCHANGED <<jobVars, aiVars>>
    \/ TickClock /\ UNCHANGED <<jobVars, asmVars, aiVars>>

InitAssemble == JobsInit /\ AssembleInit /\ AnalysisIdle

SpecAssemble == InitAssemble /\ [][AssembleNext]_vars

(***************************************************************************)
(* Properties of the emitted timeline                                      *)
(***************************************************************************)
\* The timelines assemble has emitted
Emitted == {path \in DOMAIN fs : path.name = "timeline.json" /\ fs[path].exists}

\* C10: every clip entry of a timeline emitted by assemble has
\* 0 <= in < out <= the duration of its source file, and an absolute src.
C10_ClipWithinSource ==
    \A path \in Emitted :
        \A i \in 1..Len(StoredTimeline(path).clips) :
            LET clip == StoredTimeline(path).clips[i]
            IN  /\ 0 <= clip.in
                /\ clip.in < clip.out
                /\ clip.out <= get_video_duration(fs, clip.src)
                /\ isabs(clip.src)

\* What does hold: 0 <= in < out, src absolute, and out passes the end of
\* the source by less than half a millisecond.
ClipWithinRounding ==
    \A path \in Emitted :
        \A i \in 1..Len(StoredTimeline(path).clips) :
            LET clip == StoredTimeline(path).clips[i]
            IN  /\ 0 <= clip.in
                /\ clip.in < clip.out
                /\ 2 * (clip.out - get_video_duration(fs, clip.src))
                       < Millisecond
                /\ isabs(clip.src)

(***************************************************************************)
(* Properties of the conform stage                                         *)
(***************************************************************************)
\* A file the timeline recorded in source_hashes is gone, or its mtime or
\* its size is no longer what was recorded when the timeline was written.
RecordedChanged(F, timeline) ==
    \E x \in DOMAIN timeline.source_hashes :
        LET recorded == timeline.source_hashes[x].hexdigest
        IN  \/ ~ F[x].exists
            \/ F[x].mtime # recorded[2]
            \/ F[x].size # recorded[3]

\* C11: a conform call on a readable timeline of which a recorded source file
\* was deleted or changed in mtime or size since the write fails with the
\* sources-changed error, without any transcoder run and without creating or
\* touching any file; when no recorded file changed, the validation passes.
C11_SourcesChangedStops ==
    [][ (/\ lastCall'.op = "conform_from_timeline"
         /\ ReadRaises(fs, lastCall'.path) = "None") =>
            IF RecordedChanged(fs, StoredTimeline(lastCall'.path))
            THEN /\ lastCall'.raised = SourcesChangedError
                 /\ conformed'.ffmpeg = 0
                 /\ fs' = fs
            ELSE lastCall'.raised # SourcesChangedError ]_vars

\* A conform call has just been refused because a source that still exists
\* was changed, and there is no master.
C11_Witness ==
    /\ lastCall.op = "conform_from_timeline"
    /\ lastCall.raised = SourcesChangedError
    /\ \A x \in SourceFiles : fs[x].exists
    /\ conformed.ffmpeg = 0
    /\ ~ fs[MasterPath].exists

(***************************************************************************)
(* Properties of a run of the assembler                                    *)
(***************************************************************************)
\* The last run returned (it emitted a timeline)
Succeeded == assembled # << >> /\ assembled.raised = "None"

\* The timeline the last run emitted
EmittedTimeline == StoredTimeline(timeline_path(assembled.temp_dir))

\* What the preview of the last run lasts: the segments it concatenated
PreviewDuration == TotalDuration(assembled.segments, Len(assembled.segments))

\* What conform renders from the emitted timeline: the sum of out - in
TimelineDuration ==
    MasterDuration(EmittedTimeline.clips, Len(EmittedTimeline.clips))

\* C12: after a successful run the clips of the emitted timeline add up to
\* the duration of the preview within the tolerance of the test (1 s below,
\* 1.5 s above), looped or not, and for a target of 20 s the master conform
\* renders lasts between 19.0 and 21.5 s.
C12_TimelineMatchesPreview ==
    Succeeded =>
        /\ 2 * TimelineDuration >= 2 * PreviewDuration - 2 * Second
        /\ 2 * TimelineDuration <= 2 * PreviewDuration + 3 * Second
        /\ assembled.target_duration = 20 =>
              /\ TimelineDuration >= 19 * Second
              /\ 2 * TimelineDuration <= 43 * Second

\* What does hold: a run that did not loop emits a timeline within a
\* millisecond per clip of its preview.
TimelineMatchesUnloopedPreview ==
    (Succeeded /\ Len(assembled.segments) <= Len(assembled.clips)) =>
        /\ TimelineDuration <= PreviewDuration
                                  + Len(assembled.clips) * Millisecond
        /\ PreviewDuration <= TimelineDuration
                                  + Len(assembled.clips) * Millisecond

\* Duration filling ran in the last run: its cuts added up to less than
\* 0.9 * target_duration
Filled ==
    10 * TotalDuration(assembled.trimmed, Len(assembled.trimmed))
        < 9 * assembled.target_duration * Second

LongestSegment ==
    LET durations == {assembled.segments[i].duration :
                         i \in 1..Len(assembled.segments)}
    IN  CHOOSE d \in durations : \A e \in durations : e <= d

C14_EmptyClipsFail ==
    (assembled # << >> /\ assembled.clips = << >>) =>
        assembled.raised \notin {"None", NeverReturns}

\* The music analysis of the run has no bar and no beat
NoMarkers ==
    /\ assembled # << >>
    /\ assembled.music_analysis.bar_times = << >>
    /\ assembled.music_analysis.beat_times = << >>

\* C24: a run over a non-empty list of clips whose music analysis has no bar
\* and no beat does not fail: it cuts every clip to target_duration / |clips|
\* from the middle portion of the clip.
C24_UniformWithoutMarkers ==
    (/\ NoMarkers
     /\ assembled.clips # << >>
     /\ \A i \in 1..Len(assembled.clips) :
           fs[abspath(assembled.clips[i])].exists) =>
        /\ assembled.raised = "None"
        /\ assembled.trimmed =
              trim_segments(
                  [i \in 1..Len(assembled.clips) |->
                      get_video_duration(fs, assembled.clips[i])],
                  (assembled.target_duration * Second)
                      \div Len(assembled.clips))

\* C28: every clip of an emitted timeline has for in the start offset at
\* which the run cut that clip for the preview, and for out - in the duration
\* of the cut segment (both to the millisecond the timeline is rounded to).
C28_TimelineIsThePreview ==
    Succeeded =>
        \A i \in 1..Len(EmittedTimeline.clips) :
            LET clip == EmittedTimeline.clips[i]
                cut == assembled.segments[i]
            IN  /\ clip.in = round3(cut.start)
                /\ clip.out - clip.in <= cut.duration + Millisecond
                /\ cut.duration <= clip.out - clip.in + Millisecond

\* What does hold: out - in is the duration of the cut segment within a
\* millisecond
TimelineClipLastsAsCut ==
    Succeeded =>
        \A i \in 1..Len(EmittedTimeline.clips) :
            LET clip == EmittedTimeline.clips[i]
                cut == assembled.segments[i]
            IN  /\ clip.out - clip.in <= cut.duration + Millisecond
                /\ cut.duration <= clip.out - clip.in + Millisecond

(***************************************************************************)
(* AIContentSelector.select_best_clips                                     *)
(*                                                                         *)
(* A call is a record: its arguments, the index i the for loop of          *)
(* _select_best_clips_batch stands at, all_results, and how it ended.  The *)
(* batch path suspends at each asyncio.gather, so one loop iteration is    *)
(* one step; the full path is one gather and one step.  Scores are in      *)
(* hundredths.                                                             *)
(***************************************************************************)
select_batch_size == 4    \* batch_size of _select_best_clips_batch
LargeSet == 8             \* len(video_paths) > 8
HighQuality == 60         \* r.final_score > 0.6

\* The score analyze_clip (the full analysis) gives each clip
final_score_full(c) ==
    CASE c = 1 -> 65 [] c = 2 -> 55 [] c = 3 -> 70 [] c = 4 -> 90
      [] c = 5 -> 30 [] c = 6 -> 61 [] c = 7 -> 60 [] c = 9 -> 60
      [] c = 10 -> 80 [] OTHER -> 0

analyze_clip(c) == [clip_path |-> c, final_score |-> final_score_full(c)]

\* The task select_best_clips creates for a clip
AnalysisTask(fast_mode, c) ==
    IF fast_mode THEN analyze_clip_fast(c) ELSE analyze_clip(c)

\* asyncio.gather(*tasks) raises what its first failing task raises:
\* object_detector.analyze_clip raises ValueError on a file it cannot open
GatherRaises(batch) == \E k \in 1..Len(batch) : batch[k] \in Unreadable

GatherResults(fast_mode, batch) ==
    [k \in 1..Len(batch) |-> AnalysisTask(fast_mode, batch[k])]

high_quality_count(all_results) ==
    Cardinality({k \in 1..Len(all_results) :
                    all_results[k].final_score > HighQuality})

\* An early exit that counts the analyzed clips only
EarlyExit_CountOnly(all_results, count) ==
    Len(all_results) >= count * 2

\* The early exit test at the end of an iteration (lines 407-411)
EarlyExit(all_results, count) ==
    /\ Len(all_results) >= count * 2
    /\ high_quality_count(all_results) >= count

\* The batch path is taken (line 347)
BatchPath(video_paths, fast_mode) == Len(video_paths) > LargeSet \/ fast_mode

SelectionOf(video_paths, count, fast_mode, i, all_results, state) ==
    [ video_paths |-> video_paths, target_count |-> count,
      fast_mode |-> fast_mode, i |-> i, all_results |-> all_results,
      state |-> state,
      selected |-> IF state = "returned"
                   THEN Take(SortDesc(all_results), count)
                   ELSE << >> ]

select_best_clips(video_paths, count, fast_mode) ==
    /\ IF selection = << >> THEN TRUE ELSE selection.state # "running"
    /\ selection' =
         IF BatchPath(video_paths, fast_mode)
         THEN SelectionOf(video_paths, count, fast_mode, 0, << >>,
                          IF video_paths = << >> THEN "returned"
                          ELSE "running")
         ELSE IF GatherRaises(video_paths)
         THEN SelectionOf(video_paths, count, fast_mode, 0, << >>,
                          "raised")
         ELSE SelectionOf(video_paths, count, fast_mode,
                          Len(video_paths),
                          GatherResults(fast_mode, video_paths), "returned")
    /\ UNCHANGED <<prev_gray, analysed, music, moments, moreVars>>

\* One iteration of the for loop of _select_best_clips_batch
select_best_clips_batch ==
    /\ selection # << >>
    /\ selection.state = "running"
    /\ LET video_paths == selection.video_paths
           batch == SubSeq(video_paths, selection.i + 1,
                           Min(selection.i + select_batch_size,
                               Len(video_paths)))
           all_results ==
               selection.all_results
                   \o GatherResults(selection.fast_mode, batch)
           i == selection.i + select_batch_size
           Ends(results, state) ==
               SelectionOf(video_paths, selection.target_count,
                           selection.fast_mode, selection.i + Len(batch),
                           results, state)
       IN  selection' =
             IF GatherRaises(batch)
             THEN Ends(selection.all_results, "raised")
             ELSE IF EarlyExit(all_results, selection.target_count)
                     \/ i >= Len(video_paths)
             THEN Ends(all_results, "returned")
             ELSE Ends(all_results, "running")
    /\ UNCHANGED <<prev_gray, analysed, music, moments, moreVars>>

\* The calls made: no clip, six and eight clips, nine clips (a large set),
\* two clips with equal scores, lists with a file that cannot be opened
VideoPaths ==
    { << >>, <<2, 3>>, <<4, 2, 6, 1, 5, 3>>, <<1, 5, 7, 9, 2, 3, 4, 6>>,
      <<4, 2, 6, 1, 5, 3, 7, 9, 10>>, <<9, 7, 1, 5, 10, 4, 2, 3, 6>>,
      <<1, 2, 8, 3>>, <<4, 2, 6, 1, 8, 3, 5, 7, 9>> }

TargetCounts == 0..5

SelectInit ==
    /\ MoreIdle
    /\ selection = << >>
    /\ prev_gray = << >>
    /\ analysed = << >>
    /\ music = << >>
    /\ moments = << >>

SelectNext ==
    \/ \E video_paths \in VideoPaths, count \in TargetCounts,
          fast_mode \in BOOLEAN :
          /\ select_best_clips(video_paths, count, fast_mode)
          /\ UNCHANGED <<jobVars, fileVars, asmVars>>
    \/ select_best_clips_batch /\ UNCHANGED <<jobVars, fileVars, asmVars>>

InitSelect == JobsInit /\ FilesIdle /\ AssembleIdle /\ SelectInit

SpecSelect == InitSelect /\ [][SelectNext]_vars

(***************************************************************************)
(* Properties of select_best_clips                                         *)
(***************************************************************************)
Returned == selection # << >> /\ selection.state = "returned"

\* Once k clips were analyzed, 2N clips were and N of them scored above 0.6
EnoughAfter(k) ==
    /\ k >= 2 * selection.target_count
    /\ Cardinality({j \in 1..k :
                       selection.all_results[j].final_score > HighQuality})
           >= selection.target_count

\* The batch boundaries the call went past: it started a batch after each
PassedBoundaries ==
    {k \in 1..(Len(selection.all_results) - 1) : k % select_batch_size = 0}

\* Where a result stands in all_results (the paths of a call are distinct)
AnalysisOrder(r) ==
    CHOOSE k \in 1..Len(selection.all_results) : selection.all_results[k] = r

\* At most N of the analyzed clips, by descending score, equal scores in
\* analysis order
SortedSelection ==
    /\ Len(selection.selected) <= selection.target_count
    /\ Range(selection.selected) \subseteq Range(selection.all_results)
    /\ \A a, b \in 1..Len(selection.selected) :
          a < b =>
            LET x == selection.selected[a]
                y == selection.selected[b]
            IN  \/ x.final_score > y.final_score
                \/ /\ x.final_score = y.final_score
                   /\ AnalysisOrder(x) < AnalysisOrder(y)

\* The call stopped where the early exit test first held at a batch boundary,
\* and analyzed every clip if it held at none
StoppedAtFirstExit ==
    /\ \/ Len(selection.all_results) = Len(selection.video_paths)
       \/ EnoughAfter(Len(selection.all_results))
    /\ \A k \in PassedBoundaries : ~ EnoughAfter(k)

RemainingResults ==
    LET paths == selection.video_paths
        readable == {k \in 1..Len(paths) : paths[k] \notin Unreadable}
    IN  {AnalysisTask(selection.fast_mode, paths[k]) : k \in readable}

\* C16: a call that met a clip whose analysis raises has returned a selection
\* of the remaining clips.
C16_RaisingClipDropped ==
    (/\ selection # << >>
     /\ selection.state # "running"
     /\ \E k \in 1..selection.i : selection.video_paths[k] \in Unreadable) =>
        /\ selection.state = "returned"
        /\ Range(selection.selected) \subseteq RemainingResults

(***************************************************************************)
(* AIContentSelector.analyze_clip / analyze_clip_fast on one selector       *)
(*                                                                         *)
(* A clip is the frames the object detector samples from it; a frame is    *)
(* its gray image (a uniform level 0..255 and a shape), the faces the face *)
(* cascade finds in it and the rings _detect_rings finds; the cake,        *)
(* bouquet and glass detectors find nothing in these frames.  Scores are   *)
(* exact: sub-scores in thousandths, final scores in ten-thousandths.      *)
(***************************************************************************)
Abs(x) == IF x >= 0 THEN x ELSE 0 - x

\* hasattr(self, 'prev_gray') is false
NoGray == [shape |-> "none", level |-> 0]

Frame(level, shape, faces, rings) == [gray |-> [shape |-> shape, level |-> level], faces |-> faces, rings |-> rings]

Footage == {"bright", "dark", "small", "empty", "broken"}

\* cv2.VideoCapture cannot open the file
Unopenable == {"broken"}

SampledFrames(video_path) ==
    CASE video_path = "bright" ->
           << Frame(200, "hd", 1, 0), Frame(205, "hd", 1, 0) >>
      [] video_path = "dark" ->
           << Frame(20, "hd", 3, 0), Frame(24, "hd", 3, 1),
              Frame(20, "hd", 3, 0) >>
      [] video_path = "small" -> << Frame(120, "sd", 2, 0) >>
      [] OTHER -> << >>

\* _detect_dancing: the count it returns and the prev_gray it leaves.
\* cv2.absdiff raises on images of different shapes; _detect_objects_in_frame
\* catches it (line 180) and counts 0, prev_gray staying as it was.
detect_dancing(prev, frame) ==
    IF prev = NoGray THEN [count |-> 0, prev_gray |-> frame.gray]
    ELSE IF prev.shape # frame.gray.shape THEN [count |-> 0, prev_gray |-> prev]
    ELSE LET moving == 10 * Abs(frame.gray.level - prev.level) > 255
             dancing_count == IF frame.faces > 0 /\ moving THEN frame.faces
                              ELSE 0
         IN  [count |-> Min(dancing_count, 10), prev_gray |-> frame.gray]

ObjectTypes == {"wedding_rings", "wedding_cake", "dancing", "bouquet", "ceremony_moments", "toast_moments", "people"}

NoObjects == [obj_type \in ObjectTypes |-> 0]

detect_objects_in_frame(prev, frame) ==
    LET dancing == detect_dancing(prev, frame)
    IN  [ frame_objects |->
            [obj_type \in ObjectTypes |->
               CASE obj_type = "wedding_rings" -> Min(frame.rings, 4)
                 [] obj_type = "dancing" -> dancing.count
                 [] obj_type = "ceremony_moments" ->
                      IF frame.faces >= 2 THEN Min(frame.faces, 8) ELSE 0
                 [] obj_type = "people" -> frame.faces
                 [] OTHER -> 0],
          prev_gray |-> dancing.prev_gray ]

RECURSIVE SumOver(_, _)
SumOver(f, keys) ==
    IF keys = {} THEN 0
    ELSE LET k == CHOOSE x \in keys : TRUE
         IN  f[k] + SumOver(f, keys \ {k})

\* The sampling loop of WeddingObjectDetector.analyze_clip over the first n
\* sampled frames; key_moments is the length of the list
RECURSIVE AnalyzeFrames(_, _, _)
AnalyzeFrames(prev, frames, n) ==
    IF n = 0
    THEN [objects_detected |-> NoObjects, key_moments |-> 0, prev_gray |-> prev]
    ELSE LET sofar == AnalyzeFrames(prev, frames, n - 1)
             found == detect_objects_in_frame(sofar.prev_gray, frames[n])
             total_objects == SumOver(found.frame_objects, ObjectTypes)
         IN  [ objects_detected |->
                 [obj_type \in ObjectTypes |->
                    sofar.objects_detected[obj_type]
                        + found.frame_objects[obj_type]],
               key_moments |->
                 sofar.key_moments + (IF total_objects > 0 THEN 1 ELSE 0),
               prev_gray |-> found.prev_gray ]

classify_scene(objects_detected) ==
    IF objects_detected["ceremony_moments"] > 3 THEN "ceremony"
    ELSE IF objects_detected["dancing"] > 2 THEN "party"
    ELSE IF objects_detected["wedding_cake"] > 0
            \/ objects_detected["toast_moments"] > 0 THEN "reception"
    ELSE "preparation"

\* WeddingObjectDetector.analyze_clip on a file it can open
WeddingObjectDetector_analyze_clip(prev, video_path) ==
    LET frames == SampledFrames(video_path)
        sampled == AnalyzeFrames(prev, frames, Len(frames))
    IN  IF frames = << >>
        THEN [ object_analysis |->
                 [ objects_detected |-> NoObjects, key_moments |-> 0,
                   scene_classification |-> "unknown" ],
               prev_gray |-> prev ]
        ELSE [ object_analysis |->
                 [ objects_detected |-> sampled.objects_detected,
                   key_moments |-> sampled.key_moments,
                   scene_classification |->
                       classify_scene(sampled.objects_detected) ],
               prev_gray |-> sampled.prev_gray ]

\* emotions.get(name, 0), in hundredths
EmotionGet(emotions, name) ==
    IF name \in DOMAIN emotions THEN emotions[name] ELSE 0

\* The minimal emotion analysis of the fast mode (lines 174-182)
NeutralEmotion ==
    [ emotions |-> ("neutral" :> 50), emotional_moments |-> 1,
      overall_sentiment |-> "neutral", excitement_level |-> 30 ]

\* EmotionAnalyzer.analyze_clip: what it finds in each clip
EmotionAnalyzer_analyze_clip(video_path) ==
    IF video_path = "bright"
    THEN [ emotions |-> ("joy" :> 80) @@ ("neutral" :> 20),
           emotional_moments |-> 3, overall_sentiment |-> "positive",
           excitement_level |-> 60 ]
    ELSE NeutralEmotion

\* JSON values as the classifier returns them, with their Python type
PyStr(s) == [type |-> "str", value |-> s]
PyInt(n) == [type |-> "int", value |-> n]
PyList(l) == [type |-> "list", value |-> l]
PyNone == [type |-> "NoneType", value |-> 0]

EmptyDict == << >>

\* hints.get(key)
HintGet(hints, key) == IF key \in DOMAIN hints THEN hints[key] ELSE PyNone

\* What the enricher meets: vision disabled, no thumbnail extracted, the
\* classifier call raising, answers that are no JSON object or hold values
\* of the wrong types, an empty answer, and two usable answers
VisionOutcomes ==
    { "disabled", "no_thumbnail", "api_error", "not_json", "json_list",
      "wrong_types", "empty_choices", "party", "romantic" }

VisionFailures ==
    { "disabled", "no_thumbnail", "api_error", "not_json", "json_list",
      "wrong_types" }

\* A classifier whose failed call answers with a scene
analyze_thumbnail_SceneOnError(vision) == "scene" :> PyStr("party")

\* OpenAIVisionClient.analyze_thumbnail on an existing thumbnail
analyze_thumbnail(vision) ==
    CASE vision = "api_error" -> EmptyDict
      [] vision = "empty_choices" -> EmptyDict
      [] vision = "not_json" -> "raw" :> PyStr("sorry")
      [] vision = "json_list" -> "raw" :> PyStr("[1, 2]")
      [] vision = "wrong_types" ->
           ("scene" :> PyInt(5)) @@ ("subjects" :> PyStr("cake"))
               @@ ("emotion" :> PyInt(7))
      [] vision = "party" ->
           ("scene" :> PyStr("party"))
               @@ ("subjects" :> PyList(<< PyStr("dance"), PyStr("bride"), PyInt(3) >>))
               @@ ("emotion" :> PyStr("joyful"))
      [] OTHER -> "emotion" :> PyStr("romantic")

\* mapping.get(str(s).lower()) of _merge_vision_hints
SubjectKey(s) ==
    IF s.type # "str" THEN "none"
    ELSE CASE s.value = "rings" -> "wedding_rings"
           [] s.value = "cake" -> "wedding_cake"
           [] s.value = "dance" -> "dancing"
           [] s.value = "toast" -> "toast_moments"
           [] s.value = "bouquet" -> "bouquet"
           [] s.value \in {"guests", "bride", "groom"} -> "people"
           [] OTHER -> "none"

merge_vision_hints(object_analysis, emotion_analysis, hints) ==
    LET scene == HintGet(hints, "scene")
        given == HintGet(hints, "subjects")
        subjects == IF given.type = "list" THEN given.value ELSE << >>
        emotion == HintGet(hints, "emotion")
        Hinted(obj_type) ==
            Cardinality({k \in 1..Len(subjects) :
                            SubjectKey(subjects[k]) = obj_type})
        merged_objects ==
            [ object_analysis EXCEPT
                !.scene_classification =
                    IF scene.type = "str" /\ scene.value # ""
                    THEN scene.value ELSE @,
                !.objects_detected =
                    [obj_type \in ObjectTypes |-> @[obj_type] + Hinted(obj_type)] ]
        positive ==
            emotion.value \in {"romantic", "joyful", "intimate", "celebratory"}
        merged_emotion ==
            IF emotion.type # "str" THEN emotion_analysis
            ELSE [ emotion_analysis EXCEPT
                     !.emotions =
                         (emotion.value :>
                              Max(60, EmotionGet(@, emotion.value))) @@ @,
                     !.overall_sentiment = IF positive THEN "positive" ELSE @,
                     !.excitement_level = IF positive THEN Max(50, @) ELSE @ ]
    IN  [object_analysis |-> merged_objects, emotion_analysis |-> merged_emotion]

maybe_enrich_with_vision(vision, object_analysis, emotion_analysis) ==
    LET unchanged == [ object_analysis |-> object_analysis,
                       emotion_analysis |-> emotion_analysis ]
        hints == analyze_thumbnail(vision)
    IN  IF vision \in {"disabled", "no_thumbnail"} THEN unchanged
        ELSE IF hints = EmptyDict THEN unchanged
        ELSE merge_vision_hints(object_analysis, emotion_analysis, hints)

\* StoryArcCreator, for the scores: scene, importance (thousandths), tone
determine_scene_classification(object_analysis, emotion_analysis) ==
    LET scene_from_objects == object_analysis.scene_classification
        emotions == emotion_analysis.emotions
        excitement == emotion_analysis.excitement_level
    IN  IF scene_from_objects = "ceremony" /\ excitement > 70 THEN "ceremony"
        ELSE IF scene_from_objects = "party"
                /\ EmotionGet(emotions, "tenderness") > 50
        THEN "intimate_moments"
        ELSE IF scene_from_objects = "reception" /\ excitement > 80
        THEN "party"
        ELSE IF EmotionGet(emotions, "love") > 60 /\ excitement < 40
        THEN "intimate_moments"
        ELSE scene_from_objects

calculate_story_importance(object_analysis, emotion_analysis) ==
    LET objects == object_analysis.objects_detected
        emotions == emotion_analysis.emotions
    IN  Min(1000,
            (IF objects["wedding_rings"] > 0 THEN 300 ELSE 0)
          + (IF objects["wedding_cake"] > 0 THEN 200 ELSE 0)
          + (IF objects["ceremony_moments"] > 0 THEN 400 ELSE 0)
          + (IF objects["dancing"] > 0 THEN 100 ELSE 0)
          + (IF EmotionGet(emotions, "joy") > 70 THEN 200 ELSE 0)
          + (IF EmotionGet(emotions, "love") > 60 THEN 300 ELSE 0)
          + (IF EmotionGet(emotions, "celebration") > 70 THEN 100 ELSE 0)
          + (IF object_analysis.key_moments > 2 THEN 100 ELSE 0))

determine_narrative_position(scene_classification) ==
    CASE scene_classification = "preparation" -> "opening"
      [] scene_classification = "ceremony" -> "climax"
      [] scene_classification = "reception" -> "falling_action"
      [] scene_classification = "party" -> "resolution"
      [] OTHER -> "rising_action"

Tones == << "romantic", "joyful", "dramatic", "intimate", "celebratory" >>

\* the tone classifiers, in tenths
ToneScore(tone, emotions, excitement, scene) ==
    CASE tone = "romantic" ->
           (IF EmotionGet(emotions, "love") > 50 THEN 6 ELSE 0)
         + (IF EmotionGet(emotions, "tenderness") > 40 THEN 4 ELSE 0)
         + (IF scene \in {"ceremony", "intimate_moments"} THEN 3 ELSE 0)
      [] tone = "joyful" ->
           (IF EmotionGet(emotions, "joy") > 60 THEN 8 ELSE 0)
         + (IF excitement > 50 THEN 4 ELSE 0)
         + (IF scene \in {"party", "reception"} THEN 3 ELSE 0)
      [] tone = "dramatic" ->
           (IF EmotionGet(emotions, "surprise") > 50 THEN 6 ELSE 0)
         + (IF scene = "ceremony" THEN 4 ELSE 0)
         + (IF excitement > 60 THEN 3 ELSE 0)
      [] tone = "intimate" ->
           (IF EmotionGet(emotions, "tenderness") > 60 THEN 8 ELSE 0)
         + (IF EmotionGet(emotions, "love") > 50 THEN 6 ELSE 0)
         + (IF excitement < 40 THEN 4 ELSE 0)
      [] OTHER ->
           (IF EmotionGet(emotions, "celebration") > 60 THEN 8 ELSE 0)
         + (IF excitement > 70 THEN 6 ELSE 0)
         + (IF scene \in {"party", "reception"} THEN 4 ELSE 0)

\* max(tone_scores.items(), key=...): the first tone with the highest score
determine_emotional_tone(emotion_analysis, scene) ==
    LET Score(k) == ToneScore(Tones[k], emotion_analysis.emotions,
                              emotion_analysis.excitement_level, scene)
        best == CHOOSE k \in 1..Len(Tones) :
                    /\ \A j \in 1..Len(Tones) : Score(j) <= Score(k)
                    /\ \A j \in 1..(k - 1) : Score(j) < Score(k)
    IN  Tones[best]

create_story_arc(object_analysis, emotion_analysis) ==
    LET scene == determine_scene_classification(object_analysis,
                                                emotion_analysis)
    IN  [ scene_classification |-> scene,
          story_importance |->
              calculate_story_importance(object_analysis, emotion_analysis),
          narrative_position |-> determine_narrative_position(scene),
          emotional_tone |-> determine_emotional_tone(emotion_analysis, scene) ]

\* The sub-scores of _calculate_final_score, in thousandths
calculate_object_score(object_analysis) ==
    LET objects == object_analysis.objects_detected
        key_moments == object_analysis.key_moments
    IN  Min(1000,
            (IF objects["wedding_rings"] > 0 THEN 400 ELSE 0)
          + (IF objects["wedding_cake"] > 0 THEN 300 ELSE 0)
          + (IF objects["ceremony_moments"] > 0 THEN 500 ELSE 0)
          + (IF objects["dancing"] > 0 THEN 200 ELSE 0)
          + (IF objects["people"] > 2 THEN 100 ELSE 0)
          + (IF key_moments > 3 THEN 200
             ELSE IF key_moments > 1 THEN 100 ELSE 0))

calculate_emotion_score(emotion_analysis) ==
    LET emotions == emotion_analysis.emotions
        excitement == emotion_analysis.excitement_level
        sentiment == emotion_analysis.overall_sentiment
    IN  Min(1000,
            (IF EmotionGet(emotions, "joy") > 60 THEN 300 ELSE 0)
          + (IF EmotionGet(emotions, "love") > 50 THEN 400 ELSE 0)
          + (IF EmotionGet(emotions, "celebration") > 60 THEN 200 ELSE 0)
          + (IF EmotionGet(emotions, "tenderness") > 50 THEN 300 ELSE 0)
          + (IF excitement > 70 THEN 200
             ELSE IF excitement > 40 THEN 100 ELSE 0)
          + (IF sentiment = "positive" THEN 200
             ELSE IF sentiment = "neutral" THEN 100 ELSE 0)
          + (IF emotion_analysis.emotional_moments > 2 THEN 100 ELSE 0))

calculate_story_score(story_arc) ==
    LET scene == story_arc.scene_classification
        tone == story_arc.emotional_tone
        position == story_arc.narrative_position
        scene_score ==
            CASE scene = "ceremony" -> 900 [] scene = "intimate_moments" -> 800
              [] scene = "preparation" -> 600 [] scene = "reception" -> 700
              [] scene = "party" -> 500 [] scene = "scenic_moments" -> 400
              [] OTHER -> 500
        tone_score ==
            CASE tone = "romantic" -> 900 [] tone = "intimate" -> 800
              [] tone = "joyful" -> 700 [] tone = "dramatic" -> 600
              [] OTHER -> 500
        position_score ==
            CASE position = "climax" -> 900 [] position = "rising_action" -> 800
              [] position = "opening" -> 600
              [] position = "falling_action" -> 700 [] OTHER -> 500
    IN  Min(1000, (story_arc.story_importance * 4) \div 10
                    + (scene_score * 3) \div 10 + (tone_score * 2) \div 10
                    + position_score \div 10)

calculate_style_score(story_arc, style_preset) ==
    LET tone == story_arc.emotional_tone
        scene == story_arc.scene_classification
        for_tone ==
            CASE tone = "romantic" -> {"romantic", "cinematic"}
              [] tone = "joyful" -> {"energetic", "documentary"}
              [] tone = "dramatic" -> {"cinematic"}
              [] tone = "intimate" -> {"romantic", "documentary"}
              [] OTHER -> {"energetic"}
        for_scene ==
            CASE scene = "ceremony" -> {"cinematic", "romantic"}
              [] scene = "intimate_moments" -> {"romantic", "documentary"}
              [] scene = "party" -> {"energetic", "documentary"}
              [] scene = "preparation" -> {"documentary", "romantic"}
              [] OTHER -> {}
    IN  Min(1000, 500 + (IF style_preset \in for_tone THEN 300 ELSE 0)
                      + (IF style_preset \in for_scene THEN 200 ELSE 0))

\* _calculate_final_score, in ten-thousandths
calculate_final_score(object_analysis, emotion_analysis, story_arc, style_preset) ==
    Min(10000,
        3 * calculate_object_score(object_analysis)
      + (25 * calculate_emotion_score(emotion_analysis)) \div 10
      + (25 * calculate_story_score(story_arc)) \div 10
      + 2 * calculate_style_score(story_arc, style_preset))

\* _calculate_final_score_fast, in ten-thousandths
calculate_final_score_fast(object_analysis, story_arc) ==
    Min(10000,
        5 * Min(100 * object_analysis.key_moments, 1000)
      + 3 * story_arc.story_importance
      + 2 * 500)

\* What analyze_clip (fast_mode false) or analyze_clip_fast returns for a clip
\* it can open, the detector holding prev as prev_gray, and the prev_gray it
\* leaves
Analysis(prev, video_path, fast_mode, style_preset, vision) ==
    LET detected == WeddingObjectDetector_analyze_clip(prev, video_path)
        emotion_analysis ==
            IF fast_mode THEN NeutralEmotion
            ELSE EmotionAnalyzer_analyze_clip(video_path)
        enriched == maybe_enrich_with_vision(vision, detected.object_analysis,
                                             emotion_analysis)
        story_arc == create_story_arc(enriched.object_analysis,
                                      enriched.emotion_analysis)
    IN  [ before |-> [ object_analysis |-> detected.object_analysis,
                       emotion_analysis |-> emotion_analysis ],
          after |-> enriched,
          final_score |->
              IF fast_mode
              THEN calculate_final_score_fast(enriched.object_analysis,
                                              story_arc)
              ELSE calculate_final_score(enriched.object_analysis,
                                         enriched.emotion_analysis,
                                         story_arc, style_preset),
          prev_gray |-> detected.prev_gray ]

AnalysedCall(video_path, fast_mode, style_preset, vision, raised, result) ==
    [ video_path |-> video_path, fast_mode |-> fast_mode,
      style_preset |-> style_preset, vision |-> vision, raised |-> raised,
      before |-> result.before, after |-> result.after,
      final_score |-> result.final_score ]

NoResult == [before |-> << >>, after |-> << >>, final_score |-> 0]

\* One call of analyze_clip or analyze_clip_fast
analyze(video_path, fast_mode, style_preset, vision) ==
    /\ IF video_path \in Unopenable
       THEN /\ analysed' = AnalysedCall(video_path, fast_mode, style_preset,
                                        vision, "ValueError", NoResult)
            /\ UNCHANGED prev_gray
       ELSE LET result == Analysis(prev_gray, video_path, fast_mode,
                                   style_preset, vision)
            IN  /\ analysed' = AnalysedCall(video_path, fast_mode,
                                            style_preset, vision, "None",
                                            result)
                /\ prev_gray' = result.prev_gray
    /\ UNCHANGED <<selection, music, moments, moreVars>>

StylePresets == {"romantic", "energetic"}

AnalyzeInit ==
    /\ MoreIdle
    /\ selection = << >>
    /\ prev_gray = NoGray
    /\ analysed = AnalysedCall("none", TRUE, "romantic", "disabled", "None", NoResult)
    /\ music = << >>
    /\ moments = << >>

AnalyzeNext ==
    \E video_path \in Footage, fast_mode \in BOOLEAN,
       style_preset \in StylePresets, vision \in VisionOutcomes :
       /\ analyze(video_path, fast_mode, style_preset, vision)
       /\ UNCHANGED <<jobVars, fileVars, asmVars>>

InitAnalyze == JobsInit /\ FilesIdle /\ AssembleIdle /\ AnalyzeInit

SpecAnalyze == InitAnalyze /\ [][AnalyzeNext]_vars

(***************************************************************************)
(* Properties of analyze_clip / analyze_clip_fast                          *)
(***************************************************************************)
\* A call on a clip has returned
Analysed == analysed.video_path \in Footage /\ analysed.raised = "None"

\* The sub-scores _calculate_final_score takes from the analyses a call ended
\* with, in thousandths
SubScores ==
    LET story_arc == create_story_arc(analysed.after.object_analysis,
                                      analysed.after.emotion_analysis)
    IN  [ object |-> calculate_object_score(analysed.after.object_analysis),
          story |-> calculate_story_score(story_arc),
          style |-> calculate_style_score(story_arc, analysed.style_preset) ]

\* C25: the final score of analyze_clip_fast is 0.5 * object + 0.3 * story
\* + 0.2 * style over the sub-scores analyze_clip computes from the same
\* object analysis, story arc and style preset (the emotion analysis being
\* the neutral one).
C25_FastScore ==
    (Analysed /\ analysed.fast_mode) =>
        analysed.final_score =
            5 * SubScores.object + 3 * SubScores.story + 2 * SubScores.style

\* C17: with the vision enricher disabled, a call gives a clip the score it
\* gives it on a selector that has analyzed nothing yet, whatever was
\* analyzed before.
C17_ScoresRepeat ==
    (Analysed /\ analysed.vision = "disabled") =>
        analysed.final_score =
            Analysis(NoGray, analysed.video_path, analysed.fast_mode,
                     analysed.style_preset, "disabled").final_score

\* C18: whatever the enricher meets, a call on a clip that can be opened
\* returns a result, and when the enricher failed the object and emotion
\* analyses are those it was given.
C18_EnricherNeverFails ==
    analysed.video_path \in Footage \ Unopenable =>
        /\ analysed.raised = "None"
        /\ analysed.vision \in VisionFailures =>
              analysed.after = analysed.before

\* The classifier answered with values of the wrong types, or its call
\* raised, on a clip in which objects were detected
C18_Witness ==
    /\ Analysed
    /\ analysed.vision \in {"wrong_types", "api_error"}
    /\ analysed.before.object_analysis.key_moments > 0
    /\ analysed.after = analysed.before

(***************************************************************************)
(* SimpleBeatDetector.analyze_music on bounded inputs                      *)
(*                                                                         *)
(* The track is what librosa makes of it: its length, where                *)
(* _find_music_start puts the start of the music (0.0, or a time from      *)
(* 0.1 s on inside the analyzed audio) and the tempo beat_track reports.   *)
(***************************************************************************)
TrackTempos == {40, 60, 120, 150, 200, 250}

TrackStarts == {0, 100 * Millisecond, 2 * Second}

TrackLengths == {0, 400 * Millisecond, 3 * Second, 30 * Second}

MusicTargets == {1, 3, 6, 20}

\* _find_music_start answers from the audio it is given, which is cut to
\* target_duration first (lines 57-60)
Tracks(target_duration) ==
    { m \in [tempo : TrackTempos, music_start : TrackStarts,
             length : TrackLengths] :
        m.music_start = 0
            \/ m.music_start < Min(m.length, target_duration * Second) }

AnalyzeMusic(m, target_duration) ==
    /\ music' = [ track |-> m, target_duration |-> target_duration,
                  result |-> analyze_music(m, target_duration) ]
    /\ UNCHANGED <<selection, prev_gray, analysed, moments, moreVars>>

MusicInit ==
    /\ MoreIdle
    /\ selection = << >>
    /\ prev_gray = << >>
    /\ analysed = << >>
    /\ music = << >>
    /\ moments = << >>

MusicNext ==
    \E target_duration \in MusicTargets :
       \E m \in Tracks(target_duration) :
          /\ AnalyzeMusic(m, target_duration)
          /\ UNCHANGED <<jobVars, fileVars, asmVars>>

InitMusic == JobsInit /\ FilesIdle /\ AssembleIdle /\ MusicInit

SpecMusic == InitMusic /\ [][MusicNext]_vars

(***************************************************************************)
(* Properties of a music analysis                                          *)
(***************************************************************************)
StrictlyIncreasing(times) ==
    \A k \in 1..(Len(times) - 1) : times[k] < times[k + 1]

\* The analysis fell back to the 120 BPM grid: the regular path left no bar
FellBack ==
    /\ music # << >>
    /\ music.result = fallback_analysis(music.target_duration)

\* C19: a music analysis has a tempo between 60 and 200, strictly increasing
\* beat times, strictly increasing bar times a whole number of periods
\* 4 * (60 / tempo) apart, each of them a beat time, and a first bar that is
\* not before the start of the music.
C19_MusicGrid ==
    music # << >> =>
        LET tempo == music.result.tempo
            beat_times == music.result.beat_times
            bar_times == music.result.bar_times
            period == 4 * ((60 * Second) \div tempo)
        IN  /\ 60 <= tempo /\ tempo <= 200
            /\ StrictlyIncreasing(beat_times)
            /\ StrictlyIncreasing(bar_times)
            /\ \A j \in 1..Len(bar_times) :
                  /\ (bar_times[j] - bar_times[1]) % period = 0
                  /\ bar_times[j] \in Range(beat_times)
            /\ bar_times # << >> => bar_times[1] >= music.track.music_start

\* A track reported faster than 200 BPM whose music starts late: several
\* bars on the regular path
C19_Witness ==
    /\ music # << >>
    /\ ~ FellBack
    /\ music.track.tempo > max_tempo
    /\ music.track.music_start > 0
    /\ Len(music.result.bar_times) >= 3

\* The fallback path was taken
FellBackWitness == FellBack /\ Len(music.result.bar_times) >= 2

(***************************************************************************)
(* VisualAnalyzer._find_best_moments on bounded inputs                     *)
(*                                                                         *)
(* A moment is [timestamp, combined_score]; timestamps and durations are   *)
(* in tenths of a second, scores in hundredths.  duration * 0.1 is kept    *)
(* exact by comparing ten times the distance with the duration.            *)
(***************************************************************************)
max_moments == 10
range_max_moments == 5

\* A selection that never finds two moments too close
too_close_Never(timestamp, best_moments, duration) == FALSE

\* any(abs(moment.timestamp - existing) < min_interval for existing in ...)
too_close(timestamp, best_moments, duration) ==
    \E k \in 1..Len(best_moments) :
       10 * Abs(timestamp - best_moments[k]) < duration

\* sorted(moments, key=combined_score, reverse=True): stable, equal scores
\* keep their order
RECURSIVE InsertByScore(_, _)
InsertByScore(sorted_moments, moment) ==
    IF sorted_moments = << >> THEN <<moment>>
    ELSE IF Head(sorted_moments).combined_score >= moment.combined_score
         THEN <<Head(sorted_moments)>>
                 \o InsertByScore(Tail(sorted_moments), moment)
         ELSE <<moment>> \o sorted_moments

RECURSIVE SortByScore(_, _)
SortByScore(ms, sorted_moments) ==
    IF ms = << >> THEN sorted_moments
    ELSE SortByScore(Tail(ms), InsertByScore(sorted_moments, Head(ms)))

\* the loop of lines 358-367
RECURSIVE Pick(_, _, _, _)
Pick(sorted_moments, best_moments, duration, limit) ==
    IF sorted_moments = << >> THEN best_moments
    ELSE LET ts == Head(sorted_moments).timestamp
             picked == IF too_close(ts, best_moments, duration)
                       THEN best_moments
                       ELSE Append(best_moments, ts)
         IN  IF Len(picked) >= limit THEN picked
             ELSE Pick(Tail(sorted_moments), picked, duration, limit)

\* best_moments.sort()
RECURSIVE InsertByTime(_, _)
InsertByTime(times, t) ==
    IF times = << >> THEN <<t>>
    ELSE IF Head(times) <= t THEN <<Head(times)>> \o InsertByTime(Tail(times), t)
         ELSE <<t>> \o times

RECURSIVE SortByTime(_, _)
SortByTime(times, sorted_times) ==
    IF times = << >> THEN sorted_times
    ELSE SortByTime(Tail(times), InsertByTime(sorted_times, Head(times)))

find_best_moments(ms, duration, limit) ==
    IF ms = << >> THEN << >>
    ELSE SortByTime(Pick(SortByScore(ms, << >>), << >>, duration, limit), << >>)

\* Sampled frames: how many, and how far apart
FrameCounts == {0, 1, 3, 12, 30}

FrameSteps == {1, 5}

ScorePatterns == {"rising", "falling", "flat", "peaks", "mixed"}

\* combined_score of the k-th sampled frame
ScoreOf(pattern, k) ==
    CASE pattern = "rising"  -> 10 + 2 * k
      [] pattern = "falling" -> 90 - 2 * k
      [] pattern = "flat"    -> 50
      [] pattern = "peaks"   -> IF k % 3 = 0 THEN 80 ELSE 20 + k
      [] pattern = "mixed"   -> (37 * k) % 101

SampledMoments(n, step, pattern) ==
    [k \in 1..n |-> [ timestamp |-> (k - 1) * step,
                      combined_score |-> ScoreOf(pattern, k) ]]

ClipDurations == {0, 10, 20, 50, 100, 150}

MomentLimits == {max_moments, range_max_moments}

FindBestMoments(ms, duration, limit) ==
    /\ moments' = [ moments |-> ms, duration |-> duration, limit |-> limit,
                    best |-> find_best_moments(ms, duration, limit) ]
    /\ UNCHANGED <<selection, prev_gray, analysed, music, moreVars>>

MomentsInit ==
    /\ MoreIdle
    /\ selection = << >>
    /\ prev_gray = << >>
    /\ analysed = << >>
    /\ music = << >>
    /\ moments = << >>

MomentsNext ==
    \E n \in FrameCounts, step \in FrameSteps, pattern \in ScorePatterns,
       duration \in ClipDurations, limit \in MomentLimits :
          /\ FindBestMoments(SampledMoments(n, step, pattern), duration, limit)
          /\ UNCHANGED <<jobVars, fileVars, asmVars>>

InitMoments == JobsInit /\ FilesIdle /\ AssembleIdle /\ MomentsInit

SpecMoments == InitMoments /\ [][MomentsNext]_vars

(***************************************************************************)
(* Properties of a best-moments list                                       *)
(***************************************************************************)
\* The first moment with the highest score
TopMoment(ms) ==
    LET top == CHOOSE k \in 1..Len(ms) :
                  /\ \A j \in 1..Len(ms) :
                        ms[j].combined_score <= ms[k].combined_score
                  /\ \A j \in 1..(k - 1) :
                        ms[j].combined_score < ms[k].combined_score
    IN  ms[top]

\* C20: the best-moments list is in ascending time order, has at most 10
\* entries, any two of its entries are at least a tenth of the duration
\* apart, and it is the greedy pick by descending score: its entries are
\* moments, the best-scored moment is among them, and below the limit no
\* moment that keeps the distance was left out.
C20_BestMoments ==
    moments # << >> =>
        LET ms == moments.moments
            best == moments.best
            duration == moments.duration
        IN  /\ \A k \in 1..(Len(best) - 1) : best[k] <= best[k + 1]
            /\ Len(best) <= 10
            /\ \A i \in 1..Len(best) : \A j \in 1..Len(best) :
                  i # j => 10 * Abs(best[i] - best[j]) >= duration
            /\ Range(best) \subseteq {ms[k].timestamp : k \in 1..Len(ms)}
            /\ ms # << >> => TopMoment(ms).timestamp \in Range(best)
            /\ Len(best) < moments.limit =>
                  \A k \in 1..Len(ms) :
                     \/ ms[k].timestamp \in Range(best)
                     \/ \E e \in Range(best) :
                           10 * Abs(ms[k].timestamp - e) < duration

\* More than ten moments, some left out for being too close to a better
\* one, and the list stopped at ten
C20_Witness ==
    /\ moments # << >>
    /\ moments.duration > 0
    /\ Len(moments.moments) > max_moments
    /\ Len(moments.best) = max_moments
    /\ \E k \in 1..Len(moments.moments) :
          /\ moments.moments[k].timestamp \notin Range(moments.best)
          /\ \E e \in Range(moments.best) :
                /\ 10 * Abs(moments.moments[k].timestamp - e) < moments.duration
                /\ \E j \in 1..Len(moments.moments) :
                      /\ moments.moments[j].timestamp = e
                      /\ moments.moments[j].combined_score
                            < moments.moments[k].combined_score

(***************************************************************************)
(* VisualAnalyzer.find_best_moments_in_duration on bounded inputs          *)
(*                                                                         *)
(* Times are in tenths of a second as above.  A video is its frame rate,   *)
(* its number of frames and what its frames score; cap.read() fails past   *)
(* the last frame.                                                         *)
(***************************************************************************)
\* frame_idx / fps, in tenths of a second
FrameTime(frame_idx, fps) == (frame_idx * 10) \div fps

VisualAnalyzer_find_best_moments_in_duration(video, start_time, duration) ==
    IF ~ video.opened THEN [ frames |-> {}, best |-> << >> ]
    ELSE LET fps == video.fps
             start_frame == (start_time * fps) \div 10
             end_frame == ((start_time + duration) * fps) \div 10
             last_frame == Min(end_frame, video.frame_count) - 1
             count == IF last_frame >= start_frame
                      THEN last_frame - start_frame + 1 ELSE 0
             ms == [k \in 1..count |->
                      [ timestamp |-> FrameTime(start_frame + k - 1, fps),
                        combined_score |->
                            ScoreOf(video.pattern, start_frame + k) ]]
             best_moments == find_best_moments(ms, duration, range_max_moments)
         IN  [ frames |-> start_frame..last_frame,
               best |-> [k \in 1..Len(best_moments) |->
                            start_time + best_moments[k]] ]

FrameRates == {5, 10}

Videos ==
    [ opened : BOOLEAN, fps : FrameRates, frame_count : {0, 30, 60},
      pattern : ScorePatterns ]

RangeStarts == {0, 5, 20, 40}

RangeDurations == {0, 10, 30}

FindBestMomentsInDuration(video, start_time, duration) ==
    /\ ranged' = [ video |-> video, start_time |-> start_time,
                   duration |-> duration ]
                 @@ VisualAnalyzer_find_best_moments_in_duration(
                        video, start_time, duration)
    /\ UNCHANGED Rest_ranged

RangeInit == AnalysisIdle

RangeNext ==
    \E video \in Videos, start_time \in RangeStarts,
       duration \in RangeDurations :
          /\ FindBestMomentsInDuration(video, start_time, duration)
          /\ UNCHANGED <<jobVars, fileVars, asmVars, oldAiVars>>

InitRange == JobsInit /\ FilesIdle /\ AssembleIdle /\ RangeInit

SpecRange == InitRange /\ [][RangeNext]_vars

(***************************************************************************)
(* Properties of a range search                                            *)
(***************************************************************************)
\* C21: find_best_moments_in_duration returns at most 5 timestamps, each the
\* clip time of a frame read inside the window, hence between start_time and
\* start_time + duration.
C21_RangeMoments ==
    ranged # << >> =>
        /\ Len(ranged.best) <= 5
        /\ \A k \in 1..Len(ranged.best) :
              /\ \E frame_idx \in ranged.frames :
                    ranged.best[k] = FrameTime(frame_idx, ranged.video.fps)
              /\ ranged.start_time <= ranged.best[k]
              /\ ranged.best[k] <= ranged.start_time + ranged.duration

\* The part of C21 that stands: never more than 5 timestamps
AtMostFiveMoments == ranged # << >> => Len(ranged.best) <= 5

\* A window that starts inside the clip and has five moments to return
RangeWitness ==
    /\ ranged # << >>
    /\ ranged.start_time > 0
    /\ Len(ranged.best) = 5

(***************************************************************************)
(* The analysis tasks behind asyncio.gather                                *)
(*                                                                         *)
(* asyncio.gather creates one task per clip of the batch.  An analysis of  *)
(* a clip that opens suspends (the thumbnail subprocess, the inner gather  *)
(* of the full analysis), so the tasks of a batch run interleaved; a clip  *)
(* that does not open makes its task raise.  gather hands the first        *)
(* exception to its caller at once and leaves the other tasks running.     *)
(* The caller is select_best_clips ("select") or _process_clips_batch      *)
(* ("job").                                                                *)
(***************************************************************************)
\* How many tasks one gather of the caller creates at most
GatherSize(caller, video_paths, fast_mode) ==
    IF caller = "job" THEN batch_size
    ELSE IF BatchPath(video_paths, fast_mode) THEN select_batch_size
    ELSE Max(1, Len(video_paths))

CurrentBatch(f) ==
    SubSeq(f.video_paths, f.i + 1, Min(f.i + f.size, Len(f.video_paths)))

\* asyncio.gather(*batch_tasks): a task per clip
Launch(tasks, batch) ==
    [c \in DOMAIN tasks \cup Range(batch) |->
        IF c \in Range(batch) THEN "running" ELSE tasks[c]]

InFlight(f) == {c \in DOMAIN f.tasks : f.tasks[c] = "running"}

\* The call up to its first gather
StartCall(caller, video_paths, count, fast_mode) ==
    LET size == GatherSize(caller, video_paths, fast_mode)
        f == [ caller |-> caller, video_paths |-> video_paths,
               target_count |-> count, fast_mode |-> fast_mode, i |-> 0,
               size |-> size, all_results |-> << >>,
               tasks |-> << >>, state |-> "running" ]
    IN  IF video_paths = << >>
        THEN [f EXCEPT !.state = "returned"]
        ELSE [f EXCEPT !.tasks = Launch(<< >>, CurrentBatch(f))]

StartSelect(video_paths, count, fast_mode) ==
    /\ flight = << >>
    /\ flight' = StartCall("select", video_paths, count, fast_mode)
    /\ UNCHANGED Rest_flight

StartJob(clips) ==
    /\ flight = << >>
    /\ flight' = StartCall("job", clips, 0, TRUE)
    /\ UNCHANGED Rest_flight

\* An analysis task ends: with a result, or raising for a clip that does
\* not open
TaskEnds(c) ==
    /\ flight # << >>
    /\ c \in InFlight(flight)
    /\ flight' = [flight EXCEPT !.tasks[c] =
                     IF c \in Unreadable THEN "raised" ELSE "done"]
    /\ UNCHANGED Rest_flight

\* The caller resumes from its gather: all tasks of the batch have a result,
\* or one of them raised.  select_best_clips lets the exception out;
\* _process_clips_batch catches it and continues with the next batch.
GatherResumes ==
    /\ flight # << >>
    /\ flight.state = "running"
    /\ LET f == flight
           batch == CurrentBatch(f)
           raised == \E c \in Range(batch) : f.tasks[c] = "raised"
           results == IF f.caller = "job" THEN BatchResults(batch)
                      ELSE GatherResults(f.fast_mode, batch)
           all_results == IF raised THEN f.all_results
                          ELSE f.all_results \o results
           exit == /\ f.caller = "select"
                   /\ BatchPath(f.video_paths, f.fast_mode)
                   /\ EarlyExit(all_results, f.target_count)
           next == [f EXCEPT !.i = f.i + f.size, !.all_results = all_results]
       IN  /\ raised \/ \A c \in Range(batch) : f.tasks[c] = "done"
           /\ flight' =
                 IF raised /\ f.caller = "select"
                 THEN [f EXCEPT !.state = "raised"]
                 ELSE IF exit \/ next.i >= Len(f.video_paths)
                 THEN [next EXCEPT !.state = "returned"]
                 ELSE [next EXCEPT !.tasks = Launch(f.tasks, CurrentBatch(next))]
    /\ UNCHANGED Rest_flight

JobClips == { <<1, 2, 8, 3>>, <<8, 1, 2, 3, 4, 5>>, <<4, 2, 6, 1, 5, 3>> }

FlightInit == AnalysisIdle

FlightFrame == UNCHANGED <<jobVars, fileVars, asmVars, oldAiVars>>

FlightNext ==
    \/ \E video_paths \in VideoPaths, count \in {1, 3}, fast_mode \in BOOLEAN :
          StartSelect(video_paths, count, fast_mode) /\ FlightFrame
    \/ \E clips \in JobClips : StartJob(clips) /\ FlightFrame
    \/ \E c \in Clips : TaskEnds(c) /\ FlightFrame
    \/ GatherResumes /\ FlightFrame

InitFlight == JobsInit /\ FilesIdle /\ AssembleIdle /\ FlightInit

SpecFlight == InitFlight /\ [][FlightNext]_vars

(***************************************************************************)
(* Properties of the analysis tasks                                        *)
(***************************************************************************)
\* Never more than 4 analyses of one select_best_clips call are running
SelectFlightBounded ==
    (flight # << >> /\ flight.caller = "select") =>
        Cardinality(InFlight(flight)) <= 4

\* Never more than 3 analyses of one job executor are running
JobFlightBounded ==
    (flight # << >> /\ flight.caller = "job") =>
        Cardinality(InFlight(flight)) <= 3

\* C22: at any moment at most 4 analyses started by one select_best_clips
\* call are running, and at most 3 started by one job executor.
C22_BoundedFlight == SelectFlightBounded /\ JobFlightBounded

\* On the batch path of select_best_clips the bound of 4 stands
BatchPathFlightBounded ==
    (/\ flight # << >>
     /\ flight.caller = "select"
     /\ BatchPath(flight.video_paths, flight.fast_mode)) =>
        Cardinality(InFlight(flight)) <= 4

(***************************************************************************)
(* assemble_from_sources coroutines on one VideoProcessor                  *)
(*                                                                         *)
(* main.py keeps one VideoProcessor for all requests.  A run suspends at   *)
(* every ffmpeg subprocess, so the runs of two requests interleave there.  *)
(* A step of a run goes from one suspension to the next: it reads          *)
(* self.temp_dir or self.proxy_dir, names a file in it and starts the      *)
(* subprocess that writes the file.  Directories are numbered in the order *)
(* tempfile.mkdtemp made them; a file is [dir, sub, name], the name with   *)
(* the number in it (0 where there is none).                               *)
(***************************************************************************)
RunFile(dir, sub, name) == [dir |-> dir, sub |-> sub, name |-> name]

\* The steps of a run over n clips after its first one: the remaining
\* proxies, the trimmed segments, the concatenation, the music overlay, and
\* the end (timeline, rename, return)
RunSteps(n) ==
    [k \in 1..(n - 1) |-> <<"proxy", k>>]
        \o [k \in 1..n |-> <<"trim", k - 1>>]
        \o << <<"concat", 0>>, <<"overlay", 0>>, <<"finish", 0>> >>

\* The files a step names, from the attributes of the processor as they are
\* when the step runs
StepFiles(step, P) ==
    CASE step[1] = "proxy" ->
           {RunFile(P.proxy_dir, "proxies", <<"proxy", step[2]>>)}
      [] step[1] = "trim" ->
           {RunFile(P.temp_dir, "", <<"trimmed_bar", step[2]>>)}
      [] step[1] = "concat" ->
           {RunFile(P.temp_dir, "", <<"filelist.txt", 0>>),
            RunFile(P.temp_dir, "", <<"concatenated.mp4", 0>>)}
      [] step[1] = "overlay" ->
           {RunFile(P.temp_dir, "", <<"highlight_final.mp4", 0>>)}
      [] step[1] = "finish" ->
           {RunFile(P.temp_dir, "", <<"timeline.json", 0>>),
            RunFile(P.temp_dir, "", <<"highlight_proxy.mp4", 0>>)}

\* The dict a run returns (lines 177-184)
RunResult(P) ==
    [ proxy_output |-> RunFile(P.temp_dir, "", <<"highlight_proxy.mp4", 0>>),
      timeline_path |-> RunFile(P.temp_dir, "", <<"timeline.json", 0>>),
      temp_dir |-> P.temp_dir ]

NoRunResult == << >>

\* A request arrives: the run makes its directory, stores it on the
\* processor and names its first proxy (lines 72-82 and 199-217)
StartRun(r, n) ==
    /\ r \notin DOMAIN assembling
    /\ LET dir == Cardinality(DOMAIN assembling) + 1
           P == [temp_dir |-> dir, proxy_dir |-> dir]
       IN  /\ processor' = P
           /\ assembling' =
                 assembling @@
                 (r :> [ dir |-> dir, steps |-> RunSteps(n), pc |-> 1,
                         written |-> StepFiles(<<"proxy", 0>>, P),
                         result |-> NoRunResult ])
    /\ UNCHANGED Rest_assembling

\* A run resumes from an ffmpeg subprocess and goes on to its next one, or
\* to its end
ResumeRun(r) ==
    /\ r \in DOMAIN assembling
    /\ assembling[r].pc <= Len(assembling[r].steps)
    /\ LET run == assembling[r]
           step == run.steps[run.pc]
       IN  assembling' =
              [assembling EXCEPT ![r] =
                  [run EXCEPT !.pc = run.pc + 1,
                              !.written = run.written
                                            \cup StepFiles(step, processor),
                              !.result = IF step[1] = "finish"
                                         THEN RunResult(processor)
                                         ELSE NoRunResult]]
    /\ UNCHANGED processor
    /\ UNCHANGED Rest_assembling

Requests == 1..2

ClipCounts == 1..3

RunsInit == AnalysisIdle

RunsFrame == UNCHANGED <<jobVars, fileVars, asmVars, oldAiVars>>

RunsNext ==
    \/ \E r \in Requests, n \in ClipCounts : StartRun(r, n) /\ RunsFrame
    \/ \E r \in Requests : ResumeRun(r) /\ RunsFrame

InitRuns == JobsInit /\ FilesIdle /\ AssembleIdle /\ RunsInit

SpecRuns == InitRuns /\ [][RunsNext]_vars

(***************************************************************************)
(* Properties of concurrent runs                                           *)
(***************************************************************************)
\* C23: each of two concurrent runs on one processor writes its proxies,
\* trimmed segments, concat list, preview and timeline inside its own run
\* directory only, and returns paths inside that directory.
C23_OwnRunDirectory ==
    \A r \in DOMAIN assembling :
       LET run == assembling[r]
       IN  /\ \A f \in run.written : f.dir = run.dir
           /\ run.result # NoRunResult =>
                 /\ run.result.temp_dir = run.dir
                 /\ run.result.proxy_output.dir = run.dir
                 /\ run.result.timeline_path.dir = run.dir

\* A run that has the processor to itself keeps to its directory
AloneKeepsToItsDirectory ==
    Cardinality(DOMAIN assembling) = 1 => C23_OwnRunDirectory

(***************************************************************************)
(* The analysis cache of AIContentSelector                                 *)
(*                                                                         *)
(* A string is the sequence of its pieces: the runs of characters other    *)
(* than "_" and the "_" between them, so that two strings are equal        *)
(* exactly when their sequences are.  An f-string concatenates.            *)
(***************************************************************************)
Str(piece) == <<piece>>

Underscore == Str("_")

\* f"{video_path}_{story_style}_{style_preset}_v2" (line 87) and
\* f"{video_path}_{story_style}_{style_preset}_fast_v2" (line 167)
cache_key(video_path, story_style, style_preset, fast_mode) ==
    video_path \o Underscore \o story_style \o Underscore \o style_preset
        \o (IF fast_mode THEN Underscore \o Str("fast") ELSE << >>)
        \o Underscore \o Str("v2")

\* StylePresetEngine.presets
Presets == {Str("romantic"), Str("energetic"), Str("cinematic"), Str("documentary")}

\* Clips on disk; file names may hold any character
CachePaths ==
    { Str("/v/clip"), Str("/v/clip") \o Underscore \o Str("x"),
      Str("/v/clip") \o Underscore \o Str("modern") }

\* story_style is any string of the request: a name that is no template
\* makes the story arc use the 'traditional' template (line 191)
StoryStyles ==
    { Str("traditional"), Str("modern"),
      Str("x") \o Underscore \o Str("modern"),
      Str("modern") \o Underscore \o Str("traditional") }

\* style_preset as requested: a name that is no preset makes
\* apply_style_preset raise before the result is cached
RequestedPresets == {Str("romantic"), Str("cinematic"), Str("fast")}

MaxCached == 2        \* analyses cached before the cache is cleared

AnalysisCall(video_path, story_style, style_preset, fast_mode) ==
    [ clip_path |-> video_path, story_style |-> story_style,
      style_preset |-> style_preset, fast_mode |-> fast_mode ]

\* analyze_clip / analyze_clip_fast as far as the cache goes: the result is
\* stored under the key of the call (lines 151 and 238)
analyze_and_cache(video_path, story_style, style_preset, fast_mode) ==
    /\ style_preset \in Presets
    /\ Cardinality(DOMAIN analysis_cache) < MaxCached
    /\ LET key == cache_key(video_path, story_style, style_preset, fast_mode)
           result == AnalysisCall(video_path, story_style, style_preset,
                                  fast_mode)
       IN  analysis_cache' =
              [k \in DOMAIN analysis_cache \cup {key} |->
                  IF k = key THEN result ELSE analysis_cache[k]]
    /\ UNCHANGED Rest_cache

\* apply_style_preset raises ValueError: nothing is cached
analyze_unknown_preset(video_path, story_style, style_preset, fast_mode) ==
    /\ style_preset \notin Presets
    /\ UNCHANGED analysis_cache
    /\ UNCHANGED Rest_cache

clear_cache ==
    /\ analysis_cache # << >>
    /\ analysis_cache' = << >>
    /\ UNCHANGED Rest_cache

CacheInit == AnalysisIdle

CacheFrame == UNCHANGED <<jobVars, fileVars, asmVars, oldAiVars>>

CacheNext ==
    \/ \E video_path \in CachePaths, story_style \in StoryStyles,
          style_preset \in RequestedPresets, fast_mode \in BOOLEAN :
          /\ analyze_and_cache(video_path, story_style, style_preset, fast_mode)
          /\ CacheFrame
    \/ \E video_path \in CachePaths, story_style \in StoryStyles,
          style_preset \in RequestedPresets, fast_mode \in BOOLEAN :
          /\ analyze_unknown_preset(video_path, story_style, style_preset,
                                    fast_mode)
          /\ CacheFrame
    \/ clear_cache /\ CacheFrame

InitCache == JobsInit /\ FilesIdle /\ AssembleIdle /\ CacheInit

SpecCache == InitCache /\ [][CacheNext]_vars

(***************************************************************************)
(* Properties of the analysis cache                                        *)
(***************************************************************************)
\* C26: analyses whose (clip_path, style, preset, mode) differ are stored
\* under different keys: an entry of the cache is never replaced by the
\* analysis of another call.
C26_KeysApart ==
    [][\A k \in DOMAIN analysis_cache :
          k \in DOMAIN analysis_cache' =>
             analysis_cache'[k] = analysis_cache[k]]_vars

\* With story styles that are names of templates, the keys are apart
TemplateKeysApart ==
    \A p1 \in CachePaths, p2 \in CachePaths,
       s1 \in {Str("traditional"), Str("modern")},
       s2 \in {Str("traditional"), Str("modern")},
       r1 \in Presets, r2 \in Presets, m1 \in BOOLEAN, m2 \in BOOLEAN :
          cache_key(p1, s1, r1, m1) = cache_key(p2, s2, r2, m2)
             => (p1 = p2 /\ s1 = s2 /\ r1 = r2 /\ m1 = m2)

(***************************************************************************)
(* analyze_music and its temporary WAV file                                *)
(*                                                                         *)
(* _ensure_wav_format names the file after the process id, so every        *)
(* analysis of the worker process uses the same path.  ffmpeg -y opens it  *)
(* anew (what was in it is gone) and writes the converted track while the  *)
(* coroutine is suspended; the file holds the audio of every ffmpeg that   *)
(* has written into it since it was last opened anew.  When its ffmpeg has *)
(* ended the coroutine resumes, loads the file and runs to its return      *)
(* without suspending again.                                               *)
(***************************************************************************)
Tracks_ == {"a.mp3", "b.mp3", "c.wav", "bad.mp3"}

\* music_path.lower().endswith('.wav')
IsWav(track) == track = "c.wav"

\* ffmpeg converts the track (returncode 0)
Converts(track) == track # "bad.mp3"

Analysis_(track, pc, y, clean) ==
    [track |-> track, pc |-> pc, loaded |-> y, clean |-> clean]

NothingLoaded == {}

\* analyze_music is called: a WAV track is loaded as it is and the call runs
\* to its return; any other track goes to ffmpeg and the call suspends
\* (lines 213-238)
StartAnalysis(a, track) ==
    /\ a \notin DOMAIN analyses
    /\ IF IsWav(track)
       THEN /\ analyses' = analyses @@
                   (a :> Analysis_(track, "returned", {track}, TRUE))
            /\ UNCHANGED wavfile
       ELSE /\ analyses' = analyses @@
                   (a :> Analysis_(track, "converting", NothingLoaded, TRUE))
            /\ wavfile' =
                  IF Converts(track)
                  THEN [ exists |-> TRUE,
                         audio |-> {track}
                            \cup {analyses[b].track : b \in wavfile.writers},
                         writers |-> wavfile.writers \cup {a} ]
                  ELSE wavfile
    /\ UNCHANGED Rest_wav

\* The ffmpeg process of an analysis ends
FfmpegEnds(a) ==
    /\ a \in DOMAIN analyses
    /\ analyses[a].pc = "converting"
    /\ analyses' = [analyses EXCEPT ![a].pc = "converted"]
    /\ wavfile' = [wavfile EXCEPT !.writers = wavfile.writers \ {a}]
    /\ UNCHANGED Rest_wav

\* The coroutine resumes from communicate(): librosa.load(wav_path), or of
\* the track itself when the conversion failed, then the analysis to its
\* return, normal or through the fallback; the file is left where it is
ResumeAnalysis(a) ==
    /\ a \in DOMAIN analyses
    /\ analyses[a].pc = "converted"
    /\ analyses' =
          [analyses EXCEPT ![a] =
              IF Converts(analyses[a].track)
              THEN Analysis_(analyses[a].track, "returned", wavfile.audio,
                             wavfile.writers = {})
              ELSE Analysis_(analyses[a].track, "returned",
                             {analyses[a].track}, TRUE)]
    /\ UNCHANGED wavfile
    /\ UNCHANGED Rest_wav

Analyzers == 1..3

WavInit == AnalysisIdle

WavFrame == UNCHANGED <<jobVars, fileVars, asmVars, oldAiVars>>

WavNext ==
    \/ \E a \in Analyzers, track \in Tracks_ : StartAnalysis(a, track) /\ WavFrame
    \/ \E a \in Analyzers : FfmpegEnds(a) /\ WavFrame
    \/ \E a \in Analyzers : ResumeAnalysis(a) /\ WavFrame

InitWav == JobsInit /\ FilesIdle /\ AssembleIdle /\ WavInit

SpecWav == InitWav /\ [][WavNext]_vars

(***************************************************************************)
(* Properties of the temporary WAV file                                    *)
(***************************************************************************)
\* Every analysis that was started has returned
AllReturned ==
    /\ analyses # << >>
    /\ \A a \in DOMAIN analyses : analyses[a].pc = "returned"

\* C27: when analyze_music has returned, the temporary WAV file it created
\* for the conversion no longer exists.
C27_WavRemoved ==
    (/\ AllReturned
     /\ \E a \in DOMAIN analyses :
           ~ IsWav(analyses[a].track) /\ Converts(analyses[a].track)) =>
        ~ wavfile.exists

\* C29: of two analyses running in one process on different tracks that are
\* not WAV files, each loads the audio of its own track, and not a file
\* another analysis wrote or is writing.
C29_OwnTrackLoaded ==
    \A a \in DOMAIN analyses : \A b \in DOMAIN analyses :
       (/\ a # b
        /\ analyses[a].track # analyses[b].track
        /\ ~ IsWav(analyses[a].track) /\ ~ IsWav(analyses[b].track)
        /\ analyses[a].pc = "returned") =>
           /\ analyses[a].loaded = {analyses[a].track}
           /\ analyses[a].clean

\* An analysis that runs alone loads its own track
AloneOwnTrackLoaded ==
    \A a \in DOMAIN analyses :
       (Cardinality(DOMAIN analyses) = 1 /\ analyses[a].pc = "returned") =>
           analyses[a].loaded = {analyses[a].track} /\ analyses[a].clean
====
